---- MODULE Spec2Model ----
(***************************************************************************)
(* Page features (src/common/pagefeat.c) and the page-encryption nonce     *)
(* allocator (src/backend/crypto/bufenc.c).                                *)
(*                                                                         *)
(* C strings are sequences of one-character strings.  uint16 fields are    *)
(* kept modulo 2^16.                                                       *)
(***************************************************************************)
EXTENDS Integers, Sequences, FiniteSets, TLC

VARIABLES
    pfs,                    \* the PageFeatureSet built by the initializing process
    file,                   \* the catalog file: [exists, text]
    cluster_page_features,  \* the global set by ClusterPageFeatureInit, or NULL
    last,                   \* the last call: operation, arguments, return value, registry before
    shared_iv,              \* the cluster-wide IV counter behind IncrementIVCounter
    _iv_counter,            \* per backend: static uint64 _iv_counter
    file_encryption_tag_size, \* static int file_encryption_tag_size (the same in every backend)
    file_encryption_method, \* static int file_encryption_method (the same in every backend)
    page,                   \* the page buffer of the latest EncryptPage call
    bufenc,                 \* the other statics of bufenc.c: contexts, cached offset and sizes
    calls,                  \* history: per backend, EncryptPage calls made since the initial state
    issued,                 \* history: the set of IVs written by PlaceNewIV
    nissued,                \* history: how many IVs PlaceNewIV has written
    fetched,                \* history: per backend, the values IncrementIVCounter returned
    writers,                \* per initializer inside WritePageFeatureSet: its registry and position
    catalog                 \* history: the header and lines a catalog file was made of

vars == <<pfs, file, cluster_page_features, last, shared_iv, _iv_counter,
          file_encryption_tag_size, file_encryption_method, page, bufenc, calls, issued,
          nissued, fetched, writers, catalog>>
regvars == <<pfs, file, cluster_page_features, last>>
ivvars == <<shared_iv, _iv_counter, file_encryption_tag_size, file_encryption_method, page,
            bufenc, calls, issued, nissued, fetched>>
auxvars == <<writers, catalog>>

-----------------------------------------------------------------------------
(* Program constants *)

MAX_PAGE_FEATURES == 20
PAGE_FEATURE_NAME_LEN == 20
PF_MAX_FEATURE == 2
BLCKSZ == 8192
MaxReservedPageSize == 256
UINT16_MOD == 65536
IV_SIZE == 16
IV_MASK_BITS == 10

(* Bounds of the model *)

MaxCapacity == 72     \* largest bytes_capacity handed to NewPageFeatureSet
MaxFeatures == 2      \* largest max_features handed to NewPageFeatureSet
NumProcs == 2         \* backends encrypting pages
MaxCalls == 3         \* EncryptPage calls per backend after the initial state
MaxLines == 2         \* feature lines of a catalog file made by hand
MaxEncrypted == 3     \* pages encrypted by all backends together where pages are decrypted

-----------------------------------------------------------------------------
(* Names *)

encryption_tags == <<"e","n","c","r","y","p","t","i","o","n","_","t","a","g","s">>
extended_checksums == <<"e","x","t","e","n","d","e","d","_","c","h","e","c","k","s","u","m","s">>
foo == <<"f","o","o">>
foo2 == <<"f","o","o","2">>

\* static PageFeatureDesc builtin_feature_descs[PF_MAX_FEATURE]; feature i is entry i+1
builtin_feature_descs ==
    << [name |-> encryption_tags, size |-> 0],
       [name |-> extended_checksums, size |-> 64] >>

Names == {foo, foo2, encryption_tags, extended_checksums}
Sizes == {0, 1, 5, 64}
Capacities == {16, MaxCapacity}

\* isbuiltin:1 / builtin:15 of a slot that malloc returned and nobody wrote
UninitTags == { [isbuiltin |-> 0, builtin |-> 0],
                [isbuiltin |-> 1, builtin |-> 0],
                [isbuiltin |-> 1, builtin |-> 1] }

\* an AllocatedPageFeatureDesc of the stack array descs[] that nobody wrote
UninitDescs == { [name |-> <<"?">>, offset |-> o, size |-> s, isbuiltin |-> 0, builtin |-> 0] :
                    o \in {8}, s \in {0, 8} }

NULL == [null |-> TRUE]

-----------------------------------------------------------------------------
(* Helpers *)

U16(x) == x % UINT16_MOD

Pow2(n) == 2 ^ n

\* b & (1<<i)
HasBit(b, i) == (b \div Pow2(i)) % 2 = 1

\* b | (1<<i)
SetBit(b, i) == IF HasBit(b, i) THEN b ELSE b + Pow2(i)

Take(s, n) == IF Len(s) <= n THEN s ELSE SubSeq(s, 1, n)

\* strncpy(dst, name, PAGE_FEATURE_NAME_LEN - 1)
StrNCpyName(name) == Take(name, PAGE_FEATURE_NAME_LEN - 1)

\* what follows the 19 copied characters of a name in a slot that malloc returned: the
\* byte name[19] is written by nobody, it is 0 or it is not
UninitTails == { << >>, <<"?">> }

\* the tail that the slot described by tag holds; none where the tag does not say
NameTail(tag) == IF "tail" \in DOMAIN tag THEN tag.tail ELSE << >>

\* the string that strcmp and fprintf find in the name field after the strncpy: a
\* name shorter than 19 characters is padded with zero bytes, a longer one is cut
\* and gets no terminator from strncpy
StoredName(name, tag) ==
    IF Len(name) < PAGE_FEATURE_NAME_LEN - 1
    THEN StrNCpyName(name)
    ELSE StrNCpyName(name) \o NameTail(tag)

RECURSIVE SumSizes(_, _)
SumSizes(feats, n) == IF n = 0 THEN 0 ELSE SumSizes(feats, n - 1) + feats[n].size

-----------------------------------------------------------------------------
(* NewPageFeatureSet *)

NewPageFeatureSet(bytes_capacity, max_features) ==
    [ builtin_bitmap |-> 0,
      bytes_managed  |-> bytes_capacity,
      bytes_used     |-> 0,
      feat_count     |-> 0,
      feat_capacity  |-> max_features,
      locked         |-> FALSE,
      feats          |-> << >> ]

\* Assert(bytes_capacity > 0); Assert(max_features > 0)
NewPageFeatureSetAsserts(bytes_capacity, max_features) ==
    bytes_capacity > 0 /\ max_features > 0

-----------------------------------------------------------------------------
(* Lookups *)

PageFeatureSetHasFeature(p, feature) == HasBit(p.builtin_bitmap, feature)

\* the name loop started at the second descriptor
PageFeatureSetHasNamedFeature_SkipFirst(p, feat_name) ==
    \E i \in 2..p.feat_count : p.feats[i].name = feat_name

PageFeatureSetHasNamedFeature(p, feat_name) ==
    \E i \in 1..p.feat_count : p.feats[i].name = feat_name

FeatIndex(p, feat_name) ==
    IF PageFeatureSetHasNamedFeature(p, feat_name)
    THEN CHOOSE i \in 1..p.feat_count :
            /\ p.feats[i].name = feat_name
            /\ \A j \in 1..(i - 1) : p.feats[j].name # feat_name
    ELSE 0

\* the offset handed out as it is stored, counted from the end of the page
PageFeatureSetNamedFeatureOffset_Stored(p, feat_name) ==
    IF FeatIndex(p, feat_name) = 0 THEN 0 ELSE p.feats[FeatIndex(p, feat_name)].offset

PageFeatureSetNamedFeatureOffset(p, feat_name) ==
    LET i == FeatIndex(p, feat_name)
    IN IF i = 0 THEN 0 ELSE U16(BLCKSZ - p.feats[i].offset - p.feats[i].size)

PageFeatureSetFeatureOffset(p, feature) ==
    PageFeatureSetNamedFeatureOffset(p, builtin_feature_descs[feature + 1].name)

-----------------------------------------------------------------------------
(* PageFeatureSetAddFeatureByName *)

\* the size taken as requested, without the rounding
RoundUp8_None(size) == U16(size)

\* size = (size + 7) & ~7, stored back into the uint16 parameter
RoundUp8(size) == U16(((size + 7) \div 8) * 8)

\* the first i with !strcmp(name, builtin_feature_descs[i].name), or -1
BuiltinIndex(name) ==
    IF \E i \in 0..(PF_MAX_FEATURE - 1) : builtin_feature_descs[i + 1].name = name
    THEN CHOOSE i \in 0..(PF_MAX_FEATURE - 1) :
            /\ builtin_feature_descs[i + 1].name = name
            /\ \A k \in 0..(i - 1) : builtin_feature_descs[k + 1].name # name
    ELSE -1

\* the byte-space check with >= in place of >
NoByteSpace_Strict(p, sz) == sz >= p.bytes_managed - p.bytes_used

\* the byte-space check: size > pfs->bytes_managed - pfs->bytes_used
NoByteSpace(p, sz) == sz > p.bytes_managed - p.bytes_used

\* the feature-space check: pfs->feat_count >= pfs->feat_capacity
NoFeatSpace(p) == p.feat_count >= p.feat_capacity

\* the lock not consulted for built-in names
BuiltinOnLocked_Ignored(p, builtin) == FALSE

\* a built-in name on a locked set: if (pfs->locked) return false, inside the built-in loop
BuiltinOnLocked(p, builtin) == builtin # -1 /\ p.locked

\* tag: what the isbuiltin/builtin bits of the slot hold when the code does not set them
PageFeatureSetAddFeatureByName(p, name, size, tag) ==
    LET sz == RoundUp8(size)
        builtin == BuiltinIndex(name)
    IN  IF NoFeatSpace(p) THEN [ret |-> FALSE, pfs |-> p]
        ELSE IF NoByteSpace(p, sz) THEN [ret |-> FALSE, pfs |-> p]
        ELSE IF PageFeatureSetHasNamedFeature(p, name) THEN [ret |-> FALSE, pfs |-> p]
        ELSE IF BuiltinOnLocked(p, builtin) THEN [ret |-> FALSE, pfs |-> p]
        ELSE
          LET p1 == IF builtin # -1
                    THEN [p EXCEPT !.builtin_bitmap = SetBit(@, builtin)]
                    ELSE p
              sz1 == IF builtin # -1 /\ sz = 0
                     THEN builtin_feature_descs[builtin + 1].size
                     ELSE sz
              desc == [ name      |-> StoredName(name, tag),
                        offset    |-> p.bytes_used,
                        size      |-> sz1,
                        isbuiltin |-> IF builtin # -1 THEN 1 ELSE tag.isbuiltin,
                        builtin   |-> IF builtin # -1 THEN builtin ELSE tag.builtin ]
          IN  IF sz1 = 0 THEN [ret |-> FALSE, pfs |-> p1]
              ELSE [ret |-> TRUE,
                    pfs |-> [p1 EXCEPT !.feats = Append(@, desc),
                                       !.bytes_used = U16(@ + sz1),
                                       !.feat_count = U16(@ + 1)]]

-----------------------------------------------------------------------------
(* OptimizePageFeatureSet *)

\* the first j with pfs->feats[j].isbuiltin && pfs->feats[j].builtin == i, or 0
MatchingBuiltin(p, i) ==
    IF \E j \in 1..p.feat_count : p.feats[j].isbuiltin = 1 /\ p.feats[j].builtin = i
    THEN CHOOSE j \in 1..p.feat_count :
            /\ p.feats[j].isbuiltin = 1 /\ p.feats[j].builtin = i
            /\ \A k \in 1..(j - 1) : ~(p.feats[k].isbuiltin = 1 /\ p.feats[k].builtin = i)
    ELSE 0

\* first loop: the builtins of the bitmap, lowest bit first
RECURSIVE BuiltinPicks(_, _)
BuiltinPicks(p, i) ==
    IF i >= PF_MAX_FEATURE THEN << >>
    ELSE (IF HasBit(p.builtin_bitmap, i) /\ MatchingBuiltin(p, i) # 0
          THEN << p.feats[MatchingBuiltin(p, i)] >>
          ELSE << >>) \o BuiltinPicks(p, i + 1)

IsUserDesc(d) == d.isbuiltin = 0

\* second loop: runs only if (cur_feat < pfs->feat_count)
UserPicks(p) ==
    IF Len(BuiltinPicks(p, 0)) < p.feat_count THEN SelectSeq(p.feats, IsUserDesc) ELSE << >>

\* descs[k].offset = cur_off; cur_off += descs[k].size
RECURSIVE Reoffset(_, _)
Reoffset(ds, n) ==
    IF n = 0 THEN << >>
    ELSE Append(Reoffset(ds, n - 1), [ds[n] EXCEPT !.offset = U16(SumSizes(ds, n - 1))])

OptimizedDescs(p) ==
    LET picks == BuiltinPicks(p, 0) \o UserPicks(p)
    IN Reoffset(picks, Len(picks))

\* Assert(cur_off == pfs->bytes_used && cur_feat == pfs->feat_count)
OptimizeSanity(p) ==
    LET ds == OptimizedDescs(p)
    IN SumSizes(ds, Len(ds)) = p.bytes_used /\ Len(ds) = p.feat_count

\* the early exit without the test of pfs->locked
OptimizeEarlyExit_NoLock(p) == p.builtin_bitmap = 0 \/ p.feat_count <= 1

OptimizeEarlyExit(p) == p.locked \/ p.builtin_bitmap = 0 \/ p.feat_count <= 1

\* memcpy(pfs->feats, descs, sizeof(AllocatedPageFeatureDesc) * pfs->feat_count);
\* the entries of descs[] past cur_feat were never written: g stands for them
OptimizePageFeatureSet(p, g) ==
    IF OptimizeEarlyExit(p) THEN p
    ELSE LET ds == OptimizedDescs(p)
         IN [p EXCEPT !.feats = [k \in 1..p.feat_count |->
                                    IF k <= Len(ds) THEN ds[k] ELSE g]]

-----------------------------------------------------------------------------
(* Text of the catalog file: printf and scanf *)

DigitChars == <<"0","1","2","3","4","5","6","7","8","9">>

\* printf("%d") of a non-negative int
RECURSIVE FormatInt(_)
FormatInt(n) ==
    IF n < 10 THEN << DigitChars[n + 1] >>
    ELSE Append(FormatInt(n \div 10), DigitChars[(n % 10) + 1])

IsSpace(c) == c \in {" ", "\n", "\t"}
IsDigit(c) == \E d \in 1..10 : DigitChars[d] = c
DigitVal(c) == (CHOOSE d \in 1..10 : DigitChars[d] = c) - 1

\* white space in a scanf format: skip any amount of white space
RECURSIVE SkipSpace(_, _)
SkipSpace(t, pos) ==
    IF pos <= Len(t) /\ IsSpace(t[pos]) THEN SkipSpace(t, pos + 1) ELSE pos

\* ordinary characters in a scanf format: position after them, or 0 on mismatch
ScanLiteral(t, pos, lit) ==
    IF pos + Len(lit) - 1 <= Len(t) /\ SubSeq(t, pos, pos + Len(lit) - 1) = lit
    THEN pos + Len(lit)
    ELSE 0

RECURSIVE ScanDigits(_, _, _)
ScanDigits(t, pos, acc) ==
    IF pos <= Len(t) /\ IsDigit(t[pos])
    THEN ScanDigits(t, pos + 1, acc * 10 + DigitVal(t[pos]))
    ELSE [val |-> acc, pos |-> pos]

ScanFail == [ok |-> FALSE, val |-> 0, pos |-> 0]

\* the digits of a scanf("%d"), negated after a '-'
ScanNumber(r, neg) == [ok |-> TRUE, val |-> IF neg THEN 0 - r.val ELSE r.val, pos |-> r.pos]

\* scanf("%d") at q, the first character that is not white space; q1 is past the sign
ScanSigned(t, q, q1) ==
    IF q1 <= Len(t) /\ IsDigit(t[q1])
    THEN ScanNumber(ScanDigits(t, q1, 0), q <= Len(t) /\ t[q] = "-")
    ELSE ScanFail

ScanIntAt(t, q) ==
    ScanSigned(t, q, IF q <= Len(t) /\ t[q] \in {"-", "+"} THEN q + 1 ELSE q)

\* scanf("%d"): leading white space, optional sign, at least one digit
ScanInt(t, pos) == ScanIntAt(t, SkipSpace(t, pos))

\* scanf("%20[^=]"): end of the longest run of at most n characters other than '='
RECURSIVE SpanNotEq(_, _, _)
SpanNotEq(t, pos, n) ==
    IF n > 0 /\ pos <= Len(t) /\ t[pos] # "=" THEN SpanNotEq(t, pos + 1, n - 1) ELSE pos

features_word == <<"f","e","a","t","u","r","e","s">>

\* fprintf(fp, "features %d %d\n", pfs->feat_count, pfs->bytes_used)
HeaderText(p) ==
    features_word \o <<" ">> \o FormatInt(p.feat_count) \o <<" ">>
        \o FormatInt(p.bytes_used) \o <<"\n">>

\* fprintf(fp, "%.20s=%d,%d\n", pf->name, pf->offset, pf->size)
LineText(d) ==
    Take(d.name, 20) \o <<"=">> \o FormatInt(d.offset) \o <<",">>
        \o FormatInt(d.size) \o <<"\n">>

RECURSIVE LinesText(_, _)
LinesText(feats, n) ==
    IF n = 0 THEN << >> ELSE LinesText(feats, n - 1) \o LineText(feats[n])

HeaderFail == [ok |-> FALSE, count |-> 0, size |-> 0, pos |-> 0]

HeaderScanned(t, c, s) ==
    [ok |-> s.ok, count |-> c.val, size |-> s.val,
     pos |-> IF s.ok THEN SkipSpace(t, s.pos) ELSE 0]

HeaderAfterCount(t, c) ==
    IF c.ok THEN HeaderScanned(t, c, ScanInt(t, c.pos)) ELSE HeaderFail

HeaderAfterWord(t, p1) ==
    IF p1 # 0 THEN HeaderAfterCount(t, ScanInt(t, p1)) ELSE HeaderFail

\* fscanf(fp, "features %d %d\n", &count, &size) != 2
ScanHeader(t) == HeaderAfterWord(t, ScanLiteral(t, 1, features_word))

LineFail == [ok |-> FALSE, feat_name |-> << >>, feat_off |-> 0, feat_size |-> 0, pos |-> 0]

LineScanned(t, name, o, s) ==
    IF s.ok
    THEN [ok |-> TRUE, feat_name |-> name, feat_off |-> o.val, feat_size |-> s.val,
          pos |-> SkipSpace(t, s.pos)]
    ELSE LineFail

LineAfterComma(t, name, o, p2) ==
    IF p2 # 0 THEN LineScanned(t, name, o, ScanInt(t, p2)) ELSE LineFail

LineAfterOffset(t, name, o) ==
    IF o.ok THEN LineAfterComma(t, name, o, ScanLiteral(t, o.pos, <<",">>)) ELSE LineFail

LineAfterEq(t, name, p1) ==
    IF p1 # 0 THEN LineAfterOffset(t, name, ScanInt(t, p1)) ELSE LineFail

LineAfterName(t, pos, e) ==
    IF e > pos
    THEN LineAfterEq(t, SubSeq(t, pos, e - 1), ScanLiteral(t, e, <<"=">>))
    ELSE LineFail

\* fscanf(fp, "%20[^=]=%d,%d\n", feat_name, &feat_off, &feat_size) == 3
ScanFeatureLine(t, pos) == LineAfterName(t, pos, SpanNotEq(t, pos, 20))

-----
(* WritePageFeatureSet *)

NoFile == [exists |-> FALSE, text |-> << >>]

\* the loop's check: pf->offset != tot_size || pf->size == 0
BadDesc(feats, i) == feats[i].offset # SumSizes(feats, i - 1) \/ feats[i].size = 0

\* number of feature lines written before the loop stops
LinesWritten(p) ==
    IF \E i \in 1..p.feat_count : BadDesc(p.feats, i)
    THEN (CHOOSE i \in 1..p.feat_count :
            BadDesc(p.feats, i) /\ \A k \in 1..(i - 1) : ~BadDesc(p.feats, k)) - 1
    ELSE p.feat_count

\* tot_size != pfs->bytes_used || tot_cnt != pfs->feat_count
TotalsMismatch(p) == SumSizes(p.feats, p.feat_count) # p.bytes_used

FileWith(text) == [exists |-> TRUE, text |-> text]

\* fopen(path, "wx") that creates the file whether or not it is there
OpenExclusiveFails_Never(f) == FALSE

\* fp = fopen(path, "wx") is NULL: the x of the mode refuses a path that exists
OpenExclusiveFails(f) == f.exists

\* o: the registry after OptimizePageFeatureSet; n: the lines the loop wrote
WriteLines(o, f, n) ==
    IF OpenExclusiveFails(f)
    THEN [ret |-> FALSE, pfs |-> o, file |-> f, msg |-> "couldn't open path for writing"]
    ELSE IF n < o.feat_count
    THEN [ret |-> FALSE, pfs |-> o, file |-> FileWith(HeaderText(o) \o LinesText(o.feats, n)),
          msg |-> "data structure has bad data"]
    ELSE IF TotalsMismatch(o)
    THEN [ret |-> FALSE, pfs |-> o, file |-> FileWith(HeaderText(o) \o LinesText(o.feats, n)),
          msg |-> "data structure doesn't match computed totals"]
    ELSE [ret |-> TRUE, pfs |-> [o EXCEPT !.locked = TRUE],
          file |-> FileWith(HeaderText(o) \o LinesText(o.feats, n)), msg |-> ""]

WriteOptimized(o, f) == WriteLines(o, f, LinesWritten(o))

\* g: the unwritten entries of OptimizePageFeatureSet's descs[]
WritePageFeatureSet(p, f, g) == WriteOptimized(OptimizePageFeatureSet(p, g), f)

-----------------------------------------------------------------------------
(* ReadPageFeatureSet *)

LoopEnd(msg, p, tot_size, tot_cnt) ==
    [msg |-> msg, pfs |-> p, tot_size |-> tot_size, tot_cnt |-> tot_cnt]

RECURSIVE ReadLines(_, _, _, _, _, _, _)

\* a: the result of PageFeatureSetAddFeatureByName(pfs, feat_name, feat_size)
ReadAdded(t, size, tot_size, tot_cnt, tag, ln, a) ==
    IF ~a.ret
    THEN LoopEnd("error adding feature to set", a.pfs, tot_size, tot_cnt)
    ELSE ReadLines(t, ln.pos, a.pfs, size, tot_size + ln.feat_size, tot_cnt + 1, tag)

\* the offset check left out
OffsetMisaligned_Ignored(feat_off, tot_size) == FALSE

\* feat_off != tot_size
OffsetMisaligned(feat_off, tot_size) == feat_off # tot_size

\* the count check left out
CountMismatch_Ignored(tot_cnt, count) == FALSE

\* tot_cnt != count
CountMismatch(tot_cnt, count) == tot_cnt # count

\* the loop body, for a line ln that fscanf has read
ReadLine(t, p, size, tot_size, tot_cnt, tag, ln) ==
    IF ~ln.ok
    THEN LoopEnd("", p, tot_size, tot_cnt)
    ELSE IF ln.feat_off < 0 \/ ln.feat_off > size \/ ln.feat_size <= 0 \/ ln.feat_size > size
    THEN LoopEnd("invalid feature offset or size", p, tot_size, tot_cnt)
    ELSE IF OffsetMisaligned(ln.feat_off, tot_size)
    THEN LoopEnd("feature offsets do not line up", p, tot_size, tot_cnt)
    ELSE ReadAdded(t, size, tot_size, tot_cnt, tag, ln,
                   PageFeatureSetAddFeatureByName(p, ln.feat_name, U16(ln.feat_size), tag))

\* the while loop over the feature lines; size is the header's total
ReadLines(t, pos, p, size, tot_size, tot_cnt, tag) ==
    ReadLine(t, p, size, tot_size, tot_cnt, tag, ScanFeatureLine(t, pos))

ReadResult(p, msg, asserts) == [pfs |-> p, msg |-> msg, asserts |-> asserts]

\* the checks after the loop; asserts: whether the Assert()s of NewPageFeatureSet held
ReadTotals(h, r, asserts) ==
    IF r.msg # "" THEN ReadResult(NULL, r.msg, asserts)
    ELSE IF CountMismatch(r.tot_cnt, h.count)
    THEN ReadResult(NULL, "read different count of features than in header line", asserts)
    ELSE IF r.tot_size # h.size
    THEN ReadResult(NULL, "read different byte total than in header line", asserts)
    ELSE ReadResult([r.pfs EXCEPT !.locked = TRUE], "", asserts)

ReadAfterHeader(t, h, tag) ==
    IF ~h.ok THEN ReadResult(NULL, "corrupted feature set file", TRUE)
    ELSE IF h.count < 0 \/ h.count > MAX_PAGE_FEATURES
    THEN ReadResult(NULL, "invalid feature count", TRUE)
    ELSE IF h.size < 0 \/ h.size > MaxReservedPageSize
    THEN ReadResult(NULL, "invalid feature total size", TRUE)
    ELSE ReadTotals(h, ReadLines(t, h.pos, NewPageFeatureSet(U16(h.size), U16(h.count)),
                                 h.size, 0, 0, tag),
                    NewPageFeatureSetAsserts(h.size, h.count))

\* tag: the isbuiltin/builtin bits of the freshly malloc'ed slots
ReadPageFeatureSet(f, tag) ==
    IF ~f.exists
    THEN ReadResult(NULL, "fscanf on a NULL stream", TRUE)
    ELSE ReadAfterHeader(f.text, ScanHeader(f.text), tag)

-----
(* The registry's life: initdb builds and writes pfs; a backend reads it *)

NoCall == [op |-> "none", reg |-> "pfs", name |-> << >>, size |-> 0, ret |-> TRUE,
           msg |-> "", asserts |-> TRUE, before |-> NULL, filebefore |-> NoFile]

Reg(r) == IF r = "pfs" THEN pfs ELSE cluster_page_features

InitReg ==
    /\ \E c \in Capacities, m \in 1..MaxFeatures : pfs = NewPageFeatureSet(c, m)
    /\ file = NoFile
    /\ cluster_page_features = NULL
    /\ last = NoCall

\* the values the unwritten isbuiltin/builtin bits can hold, where the call reads or keeps them
TagsFor(p, name, size) ==
    IF /\ BuiltinIndex(name) = -1
       /\ PageFeatureSetAddFeatureByName(p, name, size, [isbuiltin |-> 0, builtin |-> 0]).ret
    THEN IF Len(name) < PAGE_FEATURE_NAME_LEN - 1
         THEN UninitTags
         ELSE { [isbuiltin |-> t.isbuiltin, builtin |-> t.builtin, tail |-> x] :
                    t \in UninitTags, x \in UninitTails }
    ELSE { [isbuiltin |-> 0, builtin |-> 0] }

\* the values the unwritten entries of descs[] can hold, where the memcpy copies any
DescsFor(p) ==
    IF OptimizeEarlyExit(p) \/ Len(OptimizedDescs(p)) >= p.feat_count
    THEN { [name |-> <<"?">>, offset |-> 0, size |-> 0, isbuiltin |-> 0, builtin |-> 0] }
    ELSE UninitDescs

Called(op, r, name, size, ret, msg, asserts) ==
    [op |-> op, reg |-> r, name |-> name, size |-> size, ret |-> ret, msg |-> msg,
     asserts |-> asserts, before |-> Reg(r), filebefore |-> file]

SetReg(r, p) ==
    IF r = "pfs"
    THEN pfs' = p /\ UNCHANGED cluster_page_features
    ELSE cluster_page_features' = p /\ UNCHANGED pfs

\* PageFeatureSetAddFeatureByName(r, name, size)
AddFeature(r, name, size) ==
    /\ Reg(r) # NULL
    /\ \E tag \in TagsFor(Reg(r), name, size) :
        LET a == PageFeatureSetAddFeatureByName(Reg(r), name, size, tag)
        IN /\ SetReg(r, a.pfs)
           /\ last' = Called("add", r, name, size, a.ret, "", TRUE)
    /\ UNCHANGED file
    /\ UNCHANGED ivvars
    /\ UNCHANGED auxvars

\* WritePageFeatureSet(r, path)
Write(r) ==
    /\ Reg(r) # NULL
    /\ \E g \in DescsFor(Reg(r)) :
        LET w == WritePageFeatureSet(Reg(r), file, g)
        IN /\ SetReg(r, w.pfs)
           /\ file' = w.file
           /\ last' = Called("write", r, << >>, 0, w.ret, w.msg,
                             OptimizeEarlyExit(Reg(r)) \/ OptimizeSanity(Reg(r)))
    /\ UNCHANGED ivvars
    /\ UNCHANGED auxvars

\* a line of the text begins with a name of 19 characters or more, one that strncpy
\* leaves unterminated
HasLongName(t) ==
    \E i \in 1..(Len(t) - (PAGE_FEATURE_NAME_LEN - 2)) :
        /\ i = 1 \/ t[i - 1] = "\n"
        /\ \A k \in i..(i + PAGE_FEATURE_NAME_LEN - 2) : t[k] \notin {"=", "\n"}

\* the values the unwritten bits and bytes of the slots can hold when the file f is read
ReadTagsFor(f) ==
    IF f.exists /\ HasLongName(f.text)
    THEN { [isbuiltin |-> t.isbuiltin, builtin |-> t.builtin, tail |-> x] :
               t \in UninitTags, x \in UninitTails }
    ELSE UninitTags

\* ClusterPageFeatureInit(data_dir, name) with a name: cluster_page_features = ReadPageFeatureSet(path)
Read ==
    /\ cluster_page_features = NULL
    /\ \E tag \in ReadTagsFor(file) :
        LET rd == ReadPageFeatureSet(file, tag)
        IN /\ cluster_page_features' = rd.pfs
           /\ last' = Called("read", "cluster", << >>, 0, rd.pfs # NULL, rd.msg, rd.asserts)
    /\ UNCHANGED <<pfs, file>>
    /\ UNCHANGED ivvars
    /\ UNCHANGED auxvars

-----------------------------------------------------------------------------
(* Startup: ClusterPageFeatureInit on a catalog file, then offset lookups *)

\* the parts catalog files are made of: the header's numbers and the feature lines
HeaderCounts == 0..MaxLines
HeaderTotals == {8, 24}
LineNames == {foo, extended_checksums}
LineOffsets == {0, 5, 8}
LineSizes == {8, 16}

CatalogLines == [name : LineNames, offset : LineOffsets, size : LineSizes]

LineSeqs == UNION { [1..n -> CatalogLines] : n \in 0..MaxLines }

Catalogs == [count : HeaderCounts, total : HeaderTotals, lines : LineSeqs]

\* the file with the header "features <count> <total>" and the lines "<name>=<offset>,<size>"
CatalogFile(c) ==
    FileWith(HeaderText([feat_count |-> c.count, bytes_used |-> c.total])
                \o LinesText(c.lines, Len(c.lines)))

\* the data directory holds some catalog file and nothing is loaded
InitStartup ==
    /\ catalog \in Catalogs
    /\ file = CatalogFile(catalog)
    /\ writers = << >>
    /\ pfs = NewPageFeatureSet(MaxCapacity, MaxFeatures)
    /\ cluster_page_features = NULL
    /\ last = NoCall

\* the empty set left open to changes
EmptyPageFeatureSet_Unlocked == NewPageFeatureSet(0, 0)

\* static PageFeatureSet EmptyPageFeatureSet()
EmptyPageFeatureSet ==
    [ builtin_bitmap |-> 0,
      bytes_managed  |-> 0,
      bytes_used     |-> 0,
      feat_count     |-> 0,
      feat_capacity  |-> 0,
      locked         |-> TRUE,
      feats          |-> << >> ]

\* the values of name for which ClusterPageFeatureInit reads no file: NULL and ""
NoNames == {NULL, << >>}

\* ClusterPageFeatureInit(data_dir, name) with !name || name[0] == '\0'
ClusterPageFeatureInitEmpty(name) ==
    /\ cluster_page_features = NULL
    /\ name \in NoNames
    /\ cluster_page_features' = EmptyPageFeatureSet
    /\ last' = Called("init", "cluster", name, 0, TRUE, "", TRUE)
    /\ UNCHANGED <<pfs, file>>
    /\ UNCHANGED ivvars
    /\ UNCHANGED auxvars

\* PageFeatureSetNamedFeatureOffset(cluster_page_features, feat_name)
NamedFeatureOffset(feat_name) ==
    /\ cluster_page_features # NULL
    /\ last' = Called("offset", "cluster", feat_name, 0,
                      PageFeatureSetNamedFeatureOffset(cluster_page_features, feat_name),
                      "", TRUE)
    /\ UNCHANGED <<pfs, file, cluster_page_features>>
    /\ UNCHANGED ivvars
    /\ UNCHANGED auxvars

-----------------------------------------------------------------------------
(* Two initializers inside WritePageFeatureSet(pfs, path) on the same path *)

Writers == 1..2

\* the add calls an initializer has made on its NewPageFeatureSet before it writes
WriterAdds ==
    { << [name |-> foo, size |-> 5] >>,
      << [name |-> foo2, size |-> 64] >>,
      << [name |-> foo, size |-> 1], [name |-> extended_checksums, size |-> 0] >>,
      << [name |-> extended_checksums, size |-> 0], [name |-> foo2, size |-> 5] >>,
      << [name |-> encryption_tags, size |-> 0] >> }

\* the registry after the add calls adds[1..n], tag being the unwritten bits of the slots
RECURSIVE Built(_, _, _, _)
Built(p, adds, n, tag) ==
    IF n = 0 THEN p
    ELSE PageFeatureSetAddFeatureByName(Built(p, adds, n - 1, tag), adds[n].name, adds[n].size,
                                        IF BuiltinIndex(adds[n].name) = -1
                                        THEN tag ELSE [isbuiltin |-> 0, builtin |-> 0]).pfs

\* an initializer at the entry of WritePageFeatureSet with the registry p
WriterAt(p) ==
    [pfs |-> p, pc |-> "optimize", i |-> 0, tot_size |-> 0, tot_cnt |-> 0,
     opened |-> FALSE, rival |-> "none", ret |-> FALSE, msg |-> ""]

InitWriters ==
    /\ \E a \in [Writers -> WriterAdds], tag \in UninitTags :
          /\ writers = [w \in Writers |->
                WriterAt(Built(NewPageFeatureSet(MaxCapacity, MaxFeatures), a[w], Len(a[w]), tag))]
          /\ writers[1].pfs # writers[2].pfs
    /\ catalog = << >>
    /\ pfs = NewPageFeatureSet(MaxCapacity, MaxFeatures)
    /\ file = NoFile
    /\ cluster_page_features = NULL
    /\ last = NoCall

WriterStep(w, rec) ==
    /\ writers' = [writers EXCEPT ![w] = rec]
    /\ UNCHANGED <<pfs, cluster_page_features, last, catalog>>
    /\ UNCHANGED ivvars

Rival(w) == writers[3 - w].pc

\* OptimizePageFeatureSet(pfs)
WriterOptimize(w) ==
    /\ writers[w].pc = "optimize"
    /\ \E g \in DescsFor(writers[w].pfs) :
          WriterStep(w, [writers[w] EXCEPT !.pfs = OptimizePageFeatureSet(@, g), !.pc = "open"])
    /\ UNCHANGED file

\* fp = fopen(path, "wx"); on NULL: goto error, return false
WriterOpen(w) ==
    /\ writers[w].pc = "open"
    /\ IF OpenExclusiveFails(file)
       THEN /\ WriterStep(w, [writers[w] EXCEPT !.pc = "done", !.ret = FALSE, !.rival = Rival(w),
                                                !.msg = "couldn't open path for writing"])
            /\ UNCHANGED file
       ELSE /\ WriterStep(w, [writers[w] EXCEPT !.pc = "header", !.opened = TRUE,
                                                !.rival = Rival(w)])
            /\ file' = FileWith(<< >>)

\* fprintf(fp, "features %d %d\n", pfs->feat_count, pfs->bytes_used); tot_size = tot_cnt = 0
WriterHeader(w) ==
    /\ writers[w].pc = "header"
    /\ WriterStep(w, [writers[w] EXCEPT !.pc = "lines", !.i = 1])
    /\ file' = FileWith(file.text \o HeaderText(writers[w].pfs))

\* one turn of the for loop: the check of the descriptor, then its fprintf
WriterLine(w) ==
    /\ writers[w].pc = "lines"
    /\ writers[w].i <= writers[w].pfs.feat_count
    /\ IF BadDesc(writers[w].pfs.feats, writers[w].i)
       THEN /\ WriterStep(w, [writers[w] EXCEPT !.pc = "done", !.ret = FALSE,
                                                !.msg = "data structure has bad data"])
            /\ UNCHANGED file
       ELSE /\ WriterStep(w, [writers[w] EXCEPT
                                 !.i = @ + 1,
                                 !.tot_cnt = @ + 1,
                                 !.tot_size = @ + writers[w].pfs.feats[writers[w].i].size])
            /\ file' = FileWith(file.text \o LineText(writers[w].pfs.feats[writers[w].i]))

\* after the loop: the totals check, fsync, fclose, pfs->locked = true, return true
WriterFinish(w) ==
    /\ writers[w].pc = "lines"
    /\ writers[w].i > writers[w].pfs.feat_count
    /\ IF \/ writers[w].tot_size # writers[w].pfs.bytes_used
          \/ writers[w].tot_cnt # writers[w].pfs.feat_count
       THEN WriterStep(w, [writers[w] EXCEPT !.pc = "done", !.ret = FALSE,
                             !.msg = "data structure doesn't match computed totals"])
       ELSE WriterStep(w, [writers[w] EXCEPT !.pc = "done", !.ret = TRUE, !.pfs.locked = TRUE])
    /\ UNCHANGED file

-----------------------------------------------------------------------------
(* The nonce allocator and EncryptPage *)

Procs == 1..NumProcs

IV_COUNTER_MASK == Pow2(IV_MASK_BITS) - 1

\* x & IV_COUNTER_MASK
MaskBits(x) == x % (IV_COUNTER_MASK + 1)

\* the fetched value used without the shift
ShiftIVBits_NoShift(v) == v

\* IncrementIVCounter() << IV_MASK_BITS; exact while v < 2^54, which holds of every value here
ShiftIVBits(v) == v * Pow2(IV_MASK_BITS)

\* uint64 IncrementIVCounter(void): atomic increment of the shared counter, returns the new value
IncrementIVCounter(shared) == [value |-> shared + 1, shared |-> shared + 1]

\* the 8 bytes of a uint64 in memory order (least significant first)
RECURSIVE CounterBytes(_, _)
CounterBytes(v, n) ==
    IF n = 0 THEN << >> ELSE << v % 256 >> \o CounterBytes(v \div 256, n - 1)

\* an IV that takes only the lowest byte of the counter
IVBytes_LowByte(counter) == [k \in 1..(IV_SIZE - 1) |-> 0] \o << counter % 256 >>

\* memset(loc, 0, size - sizeof(_iv_counter)); memcpy(loc + (size - sizeof(_iv_counter)), &_iv_counter, ...)
IVBytes(counter) == [k \in 1..(IV_SIZE - 8) |-> 0] \o CounterBytes(counter, 8)

\* a fetch at every call
PlaceNewIVFetches_Always(counter) == TRUE

\* no fetch by a process whose counter is still 0
PlaceNewIVFetches_NotAtZero(counter) == counter # 0 /\ counter % (IV_COUNTER_MASK + 1) = 0

\* !(_iv_counter & IV_COUNTER_MASK)
PlaceNewIVFetches(counter) == MaskBits(counter) = 0

\* static void PlaceNewIV(uint8 *loc, uint16 size)
PlaceNewIV(counter, shared) ==
    LET f == IncrementIVCounter(shared)
        c == IF PlaceNewIVFetches(counter) THEN ShiftIVBits(f.value) ELSE counter
    IN [iv |-> IVBytes(c),
        counter |-> c + 1,
        shared |-> IF PlaceNewIVFetches(counter) THEN f.shared ELSE shared,
        fetched |-> IF PlaceNewIVFetches(counter) THEN << f.value >> ELSE << >>]

NoAAD == [data |-> "none", fileno |-> 0, blkNo |-> 0]

\* authenticated data that would depend on the permanence of the relation
setup_additional_authenticated_data_WithFlag(pg, blkno, relation_is_permanent, fileno) ==
    [data |-> pg.hdr, fileno |-> fileno, blkNo |-> blkno,
     permanent |-> relation_is_permanent]

\* setup_additional_authenticated_data: header bytes, fileno, blkNo
setup_additional_authenticated_data(pg, blkno, relation_is_permanent, fileno) ==
    [data |-> pg.hdr, fileno |-> fileno, blkNo |-> blkno]

PG_CIPHER_AES_GCM == "PG_CIPHER_AES_GCM"
PG_CIPHER_AES_XTS == "PG_CIPHER_AES_XTS"

\* EncryptionAlgorithm(file_encryption_method): the cipher of the encryption method
EncryptionAlgorithm(method) == IF method = "AES_GCM" THEN PG_CIPHER_AES_GCM ELSE PG_CIPHER_AES_XTS

\* the GCM tag of a message under the relation key, as a term over what it authenticates
GcmTag(plaintext, iv, aad) == [mac |-> plaintext, iv |-> iv, aad |-> aad]

\* pg_cipher_encrypt under the relation key: ciphertext and tag as terms over their inputs;
\* the tag is fetched only if (cipher == PG_CIPHER_AES_GCM) && taglen && outtag, otherwise
\* the bytes at outtag stay as they were
pg_cipher_encrypt(cipher, plaintext, iv, aad, outtag, taglen) ==
    [ciphertext |-> [enc |-> plaintext, iv |-> iv],
     tag |-> IF cipher = PG_CIPHER_AES_GCM /\ taglen > 0
             THEN GcmTag(plaintext, iv, aad) ELSE outtag]

\* EVP_CIPHER_CTX_ctrl(ctx, EVP_CTRL_GCM_SET_TAG, taglen, intag): a tag of no bytes is refused
SetTagOk(taglen) == taglen > 0

\* what EVP_DecryptUpdate writes to the output: the plaintext if the IV is the one used
DecryptedBytes(ciphertext, iv) ==
    IF ciphertext.iv = iv THEN ciphertext.enc ELSE "garbage"

\* pg_cipher_decrypt under the relation key; the output is written before the tag is
\* set and checked, and the tag is set and checked only if cipher == PG_CIPHER_AES_GCM
pg_cipher_decrypt(cipher, ciphertext, iv, aad, intag, taglen) ==
    [plaintext |-> DecryptedBytes(ciphertext, iv),
     ok |-> IF cipher = PG_CIPHER_AES_GCM
            THEN SetTagOk(taglen) /\ intag = GcmTag(DecryptedBytes(ciphertext, iv), iv, aad)
            ELSE TRUE]

BlockNumbers == {42, 43}
FileNumbers == {7}
OtherFileNumbers == {8}
FreshPage == [hdr |-> "hdr", body |-> "plain", iv |-> IVBytes(0), authtag |-> "none"]

\* plaintext pages handed to EncryptPage, and header bytes a stored page can come back with
Pages == { FreshPage, [FreshPage EXCEPT !.body = "plain2"] }
Headers == {"hdr", "hdr2"}

-----------------------------------------------------------------------------
(* InitializeBufferEncryption and the size lookups it uses *)

DISABLED_ENCRYPTION_METHOD == "DISABLED"
PF_ENCRYPTION_TAG == 0
BUFENC_IV_SIZE == 16

\* the length of the page header that stays unencrypted (defined outside these files)
PageEncryptOffset == 16

\* PageFeatureSetNamedFeatureSize(pfs, feat_name): the loop runs over
\* cluster_page_features, whatever pfs is
PageFeatureSetNamedFeatureSize(p, feat_name) ==
    LET i == FeatIndex(cluster_page_features, feat_name)
    IN IF i = 0 THEN 0 ELSE cluster_page_features.feats[i].size

PageFeatureSetFeatureSize(p, feature) ==
    PageFeatureSetNamedFeatureSize(p, builtin_feature_descs[feature + 1].name)

\* static PgCipherCtx *BufEncCtx = NULL ... static uint16 encryption_size = 0
NoBufEnc ==
    [ BufEncCtx  |-> NULL,
      BufDecCtx  |-> NULL,
      XLogEncCtx |-> NULL,
      XLogDecCtx |-> NULL,
      encryption_offset |-> 0,
      encryption_size   |-> 0,
      file_encryption_page_size |-> 0 ]

\* the pg_cipher_ctx_create calls of InitializeBufferEncryption, in order
CtxCalls == 1..4

\* pg_cipher_ctx_create(cipher, key, klen, enc); ok: the cipher is known and OpenSSL made
\* the context
pg_cipher_ctx_create(cipher, enc, ok) ==
    IF ok THEN [cipher |-> cipher, enc |-> enc] ELSE NULL

\* the statics of a backend whose InitializeBufferEncryption(method) returned, the
\* encryption feature being the first of the registry with tag_size bytes after the IV
BufEncFor(method, tag_size) ==
    [ BufEncCtx  |-> pg_cipher_ctx_create(EncryptionAlgorithm(method), TRUE, TRUE),
      BufDecCtx  |-> pg_cipher_ctx_create(EncryptionAlgorithm(method), FALSE, TRUE),
      XLogEncCtx |-> pg_cipher_ctx_create(PG_CIPHER_AES_GCM, TRUE, TRUE),
      XLogDecCtx |-> pg_cipher_ctx_create(PG_CIPHER_AES_GCM, FALSE, TRUE),
      encryption_offset |-> BLCKSZ - (tag_size + BUFENC_IV_SIZE),
      encryption_size   |-> tag_size + BUFENC_IV_SIZE,
      file_encryption_page_size |-> BLCKSZ - (tag_size + BUFENC_IV_SIZE) - PageEncryptOffset ]

\* a method that is taken for the disabled one although it is not
MethodDisabled_Never(method) == FALSE

\* init_file_encryption_method == DISABLED_ENCRYPTION_METHOD
MethodDisabled(method) == method = DISABLED_ENCRYPTION_METHOD

\* a missing context that goes unnoticed
CtxMissing_Never(ctx) == FALSE

\* !BufEncCtx, !BufDecCtx, !XLogEncCtx, !XLogDecCtx
CtxMissing(ctx) == ctx = NULL

\* what a call of InitializeBufferEncryption left: ret is whether it returned, msg the
\* error it raised otherwise
InitCalled(method, fails, ret, msg) ==
    [op |-> "initenc", method |-> method, fails |-> fails, ret |-> ret, msg |-> msg,
     before |-> [bufenc |-> bufenc, file_encryption_method |-> file_encryption_method,
                 file_encryption_tag_size |-> file_encryption_tag_size]]

\* InitializeBufferEncryption(init_file_encryption_method), called once when a backend
\* (FRONTEND not defined) starts; fails: which of the pg_cipher_ctx_create calls returns
\* NULL, 0 for none.  my_error leaves the function at once, with the statics as assigned
\* so far, so the calls after a failing one are not made.
InitializeBufferEncryption(init_file_encryption_method, fails) ==
    /\ cluster_page_features # NULL
    /\ file_encryption_method = DISABLED_ENCRYPTION_METHOD
    /\ IF MethodDisabled(init_file_encryption_method)
       THEN /\ last' = InitCalled(init_file_encryption_method, fails, TRUE, "")
            /\ UNCHANGED <<bufenc, file_encryption_method, file_encryption_tag_size>>
       ELSE LET alg  == EncryptionAlgorithm(init_file_encryption_method)
                enc  == pg_cipher_ctx_create(alg, TRUE, fails # 1)
                dec  == pg_cipher_ctx_create(alg, FALSE, fails # 2)
                xenc == pg_cipher_ctx_create(PG_CIPHER_AES_GCM, TRUE, fails # 3)
                xdec == pg_cipher_ctx_create(PG_CIPHER_AES_GCM, FALSE, fails # 4)
                off  == PageFeatureSetFeatureOffset(cluster_page_features, PF_ENCRYPTION_TAG)
                size == PageFeatureSetFeatureSize(cluster_page_features, PF_ENCRYPTION_TAG)
                b1   == [bufenc EXCEPT !.BufEncCtx = enc]
                b2   == [b1 EXCEPT !.BufDecCtx = dec]
                b3   == [b2 EXCEPT !.encryption_offset = off,
                                   !.encryption_size = size,
                                   !.file_encryption_page_size = off - PageEncryptOffset,
                                   !.XLogEncCtx = xenc]
                b4   == [b3 EXCEPT !.XLogDecCtx = xdec]
            IN /\ file_encryption_method' = init_file_encryption_method
               /\ IF CtxMissing(enc)
                  THEN /\ bufenc' = b1
                       /\ UNCHANGED file_encryption_tag_size
                       /\ last' = InitCalled(init_file_encryption_method, fails, FALSE,
                                             "cannot initialize encryption context")
                  ELSE IF CtxMissing(dec)
                  THEN /\ bufenc' = b2
                       /\ UNCHANGED file_encryption_tag_size
                       /\ last' = InitCalled(init_file_encryption_method, fails, FALSE,
                                             "cannot initialize decryption context")
                  ELSE /\ file_encryption_tag_size' = size - BUFENC_IV_SIZE
                       /\ IF CtxMissing(xenc)
                          THEN /\ bufenc' = b3
                               /\ last' = InitCalled(init_file_encryption_method, fails, FALSE,
                                              "cannot initialize xlog encryption context")
                          ELSE IF CtxMissing(xdec)
                          THEN /\ bufenc' = b4
                               /\ last' = InitCalled(init_file_encryption_method, fails, FALSE,
                                              "cannot initialize xlog decryption context")
                          ELSE /\ bufenc' = b4
                               /\ last' = InitCalled(init_file_encryption_method, fails, TRUE, "")
    /\ UNCHANGED <<shared_iv, _iv_counter, page, calls, issued, nissued, fetched>>
    /\ UNCHANGED <<pfs, file, cluster_page_features>>
    /\ UNCHANGED auxvars

\* PageFeatureSetNamedFeatureSize(r, feat_name)
NamedFeatureSize(r, feat_name) ==
    /\ Reg(r) # NULL
    /\ cluster_page_features # NULL
    /\ last' = Called("size", r, feat_name, 0, PageFeatureSetNamedFeatureSize(Reg(r), feat_name),
                      "", TRUE)
    /\ UNCHANGED <<pfs, file, cluster_page_features>>
    /\ UNCHANGED ivvars
    /\ UNCHANGED auxvars

\* PageFeatureSetFeatureSize(r, feature)
FeatureSize(r, feature) ==
    /\ Reg(r) # NULL
    /\ cluster_page_features # NULL
    /\ last' = Called("featsize", r, builtin_feature_descs[feature + 1].name, 0,
                      PageFeatureSetFeatureSize(Reg(r), feature), "", TRUE)
    /\ UNCHANGED <<pfs, file, cluster_page_features>>
    /\ UNCHANGED ivvars
    /\ UNCHANGED auxvars

\* the header fields of a page that the page-level lookups read: the PD_EXTENDED_FEATS
\* flag of pd_flags and pd_feat.features; NULL is no page
PageHeaders ==
    {NULL, [extended_feats |-> FALSE, features |-> 1]}
        \cup [extended_feats : {TRUE}, features : 0..(Pow2(PF_MAX_FEATURE) - 1)]

\* the names looked up on a page
LookupNames == {foo, encryption_tags, extended_checksums}

\* !page || !(pd_flags & PD_EXTENDED_FEATS) || !pd_feat.features
NoPageFeatures(pg) == pg = NULL \/ ~pg.extended_feats \/ pg.features = 0

\* Assert(pd_feat.features == cluster_page_features->builtin_bitmap)
PageBitmapAssert(pg) == pg.features = cluster_page_features.builtin_bitmap

\* what a page-level lookup left; an Assert that fails ends the call only where
\* assertions are compiled in (assert_checking), otherwise the call goes on and returns
PageCalled(op, pg, feat_name, value, assert_checking) ==
    [op |-> op, page |-> pg, name |-> feat_name,
     asserts |-> NoPageFeatures(pg) \/ PageBitmapAssert(pg),
     returned |-> NoPageFeatures(pg) \/ PageBitmapAssert(pg) \/ ~assert_checking,
     ret |-> IF NoPageFeatures(pg) THEN 0 ELSE value]

\* PageGetNamedFeatureOffset(page, feat_name)
PageGetNamedFeatureOffset(pg, feat_name, assert_checking) ==
    /\ cluster_page_features # NULL
    /\ last' = PageCalled("pageoffset", pg, feat_name,
                          PageFeatureSetNamedFeatureOffset(cluster_page_features, feat_name),
                          assert_checking)
    /\ UNCHANGED <<pfs, file, cluster_page_features>>
    /\ UNCHANGED ivvars
    /\ UNCHANGED auxvars

\* PageGetNamedFeatureSize(page, feat_name)
PageGetNamedFeatureSize(pg, feat_name, assert_checking) ==
    /\ cluster_page_features # NULL
    /\ last' = PageCalled("pagesize", pg, feat_name,
                          LET i == FeatIndex(cluster_page_features, feat_name)
                          IN IF i = 0 THEN 0 ELSE cluster_page_features.feats[i].size,
                          assert_checking)
    /\ UNCHANGED <<pfs, file, cluster_page_features>>
    /\ UNCHANGED ivvars
    /\ UNCHANGED auxvars

-----------------------------------------------------------------------------
(* The backends' IV counters *)

\* the state of a backend that has made k EncryptPage calls since it started, having
\* fetched the value v at its first call (k below the batch size)
RanCounter(v, k) == IF k = 0 THEN 0 ELSE ShiftIVBits(v) + k
RanIssued(v, k) == { IVBytes(ShiftIVBits(v) + j) : j \in 0..(k - 1) }

NearBatchEnd == IV_COUNTER_MASK - 1

\* Backends start with _iv_counter = 0.  The initial states are those reached when
\* backend 1 has already run 0 or NearBatchEnd calls and the others none.
InitIV ==
    \E k \in {0, NearBatchEnd} :
        /\ shared_iv = (IF k > 0 THEN 1 ELSE 0)
        /\ _iv_counter = [p \in Procs |-> IF p = 1 THEN RanCounter(1, k) ELSE 0]
        /\ issued = RanIssued(1, k)
        /\ nissued = k
        /\ fetched = [p \in Procs |-> IF p = 1 /\ k > 0 THEN << 1 >> ELSE << >>]
        /\ calls = [p \in Procs |-> 0]
        /\ page = FreshPage
        /\ file_encryption_tag_size \in {0, 16}
        /\ file_encryption_method = "AES_GCM"
        /\ bufenc = BufEncFor(file_encryption_method, file_encryption_tag_size)

\* EncryptPage(page, relation_is_permanent, blkno, fileno) in backend p, on the plaintext
\* page pg0; cipher_ok: whether pg_cipher_encrypt returned true (otherwise my_error is raised)
EncryptPage(p, pg0, relation_is_permanent, blkno, fileno, cipher_ok) ==
    /\ calls[p] < MaxCalls
    /\ bufenc.BufEncCtx # NULL
    /\ LET n == PlaceNewIV(_iv_counter[p], shared_iv)
           pg == [pg0 EXCEPT !.iv = n.iv]
           aad == IF file_encryption_tag_size > 0
                  THEN setup_additional_authenticated_data(pg, blkno, relation_is_permanent, fileno)
                  ELSE NoAAD
           c == pg_cipher_encrypt(EncryptionAlgorithm(file_encryption_method), pg.body, n.iv,
                                  aad, pg.authtag, file_encryption_tag_size)
       IN /\ _iv_counter' = [_iv_counter EXCEPT ![p] = n.counter]
          /\ shared_iv' = n.shared
          /\ fetched' = [fetched EXCEPT ![p] = @ \o n.fetched]
          /\ issued' = issued \cup {n.iv}
          /\ nissued' = nissued + 1
          /\ page' = IF cipher_ok
                     THEN [pg EXCEPT !.body = c.ciphertext, !.authtag = c.tag]
                     ELSE pg
    /\ calls' = [calls EXCEPT ![p] = @ + 1]
    /\ last' = [op |-> "encrypt", blkno |-> blkno, fileno |-> fileno, ret |-> cipher_ok,
                msg |-> IF cipher_ok THEN "" ELSE "cannot encrypt page", plain |-> pg0]
    /\ UNCHANGED <<file_encryption_tag_size, file_encryption_method, bufenc>>
    /\ UNCHANGED <<pfs, file, cluster_page_features>>
    /\ UNCHANGED auxvars

\* a DecryptPage that draws a new IV for the page as EncryptPage does
DecryptPage_NewIV(hdr, relation_is_permanent, blkno, fileno) ==
    /\ last.op = "encrypt"
    /\ last.ret
    /\ LET n == PlaceNewIV(_iv_counter[1], shared_iv)
       IN /\ _iv_counter' = [_iv_counter EXCEPT ![1] = n.counter]
          /\ shared_iv' = n.shared
          /\ fetched' = [fetched EXCEPT ![1] = @ \o n.fetched]
          /\ page' = [page EXCEPT !.hdr = hdr, !.iv = n.iv]
    /\ last' = [op |-> "decrypt", blkno |-> blkno, fileno |-> fileno, hdr |-> hdr,
                ret |-> FALSE, msg |-> "cannot decrypt page", enc |-> last]
    /\ UNCHANGED <<calls, issued, nissued>>
    /\ UNCHANGED <<file_encryption_tag_size, file_encryption_method, bufenc>>
    /\ UNCHANGED <<pfs, file, cluster_page_features>>
    /\ UNCHANGED auxvars

\* DecryptPage(page, relation_is_permanent, blkno, fileno) on the bytes that the latest
\* EncryptPage produced, read back with the header bytes hdr
DecryptPage(hdr, relation_is_permanent, blkno, fileno) ==
    /\ last.op = "encrypt"
    /\ last.ret
    /\ bufenc.BufDecCtx # NULL
    /\ LET pg == [page EXCEPT !.hdr = hdr]
           aad == IF file_encryption_tag_size > 0
                  THEN setup_additional_authenticated_data(pg, blkno, relation_is_permanent, fileno)
                  ELSE NoAAD
           d == pg_cipher_decrypt(EncryptionAlgorithm(file_encryption_method), pg.body, pg.iv,
                                  aad, pg.authtag, file_encryption_tag_size)
       IN /\ page' = [pg EXCEPT !.body = d.plaintext]
          /\ last' = [op |-> "decrypt", blkno |-> blkno, fileno |-> fileno, hdr |-> hdr,
                      ret |-> d.ok, msg |-> IF d.ok THEN "" ELSE "cannot decrypt page",
                      enc |-> last]
    /\ UNCHANGED <<shared_iv, _iv_counter, calls, issued, nissued, fetched>>
    /\ UNCHANGED <<file_encryption_tag_size, file_encryption_method, bufenc>>
    /\ UNCHANGED <<pfs, file, cluster_page_features>>
    /\ UNCHANGED auxvars

\* Backend p exits or crashes somewhere in its batch and a new process takes its place:
\* the static _iv_counter of the new process is 0; the shared counter is not the
\* process's and stays
Restart(p) ==
    /\ _iv_counter[p] # 0
    /\ _iv_counter' = [_iv_counter EXCEPT ![p] = 0]
    /\ last' = [op |-> "restart", proc |-> p, counter |-> _iv_counter[p]]
    /\ UNCHANGED <<shared_iv, page, calls, issued, nissued, fetched>>
    /\ UNCHANGED <<file_encryption_tag_size, file_encryption_method, bufenc>>
    /\ UNCHANGED <<pfs, file, cluster_page_features>>
    /\ UNCHANGED auxvars

-----------------------------------------------------------------------------
(* PlaceNewIV with the counters at their full width of 64 bits *)

\* a uint64 as four 16-bit limbs, least significant first: the values near the top of
\* the range are beyond the integers of the model checker
Zero64 == <<0, 0, 0, 0>>
One64 == <<1, 0, 0, 0>>

\* w + k in uint64, for a small k
Add64(w, k) ==
    LET s1 == w[1] + k
        s2 == w[2] + (s1 \div UINT16_MOD)
        s3 == w[3] + (s2 \div UINT16_MOD)
        s4 == w[4] + (s3 \div UINT16_MOD)
    IN << s1 % UINT16_MOD, s2 % UINT16_MOD, s3 % UINT16_MOD, s4 % UINT16_MOD >>

\* the bits of a limb that a shift by IV_MASK_BITS moves into the next limb
LimbCarry(x) == x \div Pow2(16 - IV_MASK_BITS)

\* the bits of a limb that stay in it
LimbShifted(x) == (x * Pow2(IV_MASK_BITS)) % UINT16_MOD

\* IncrementIVCounter() << IV_MASK_BITS in uint64: the bits moved out of the top are lost
ShiftIVBits_uint64(w) ==
    << LimbShifted(w[1]),
       LimbShifted(w[2]) + LimbCarry(w[1]),
       LimbShifted(w[3]) + LimbCarry(w[2]),
       LimbShifted(w[4]) + LimbCarry(w[3]) >>

\* the batch a counter value lies in: w >> IV_MASK_BITS
BatchOf(w) ==
    << (w[1] \div Pow2(IV_MASK_BITS)) + (w[2] % Pow2(IV_MASK_BITS)) * Pow2(16 - IV_MASK_BITS),
       (w[2] \div Pow2(IV_MASK_BITS)) + (w[3] % Pow2(IV_MASK_BITS)) * Pow2(16 - IV_MASK_BITS),
       (w[3] \div Pow2(IV_MASK_BITS)) + (w[4] % Pow2(IV_MASK_BITS)) * Pow2(16 - IV_MASK_BITS),
       w[4] \div Pow2(IV_MASK_BITS) >>

\* the 8 bytes of a uint64 in memory order
Bytes_uint64(w) ==
    << w[1] % 256, w[1] \div 256, w[2] % 256, w[2] \div 256,
       w[3] % 256, w[3] \div 256, w[4] % 256, w[4] \div 256 >>

IVBytes_uint64(counter) == [k \in 1..(IV_SIZE - 8) |-> 0] \o Bytes_uint64(counter)

IncrementIVCounter_uint64(shared) == [value |-> Add64(shared, 1), shared |-> Add64(shared, 1)]

\* static void PlaceNewIV(uint8 *loc, uint16 size), on uint64 counters
PlaceNewIV_uint64(counter, shared) ==
    LET f == IncrementIVCounter_uint64(shared)
        fetch == PlaceNewIVFetches(counter[1])
        c == IF fetch THEN ShiftIVBits_uint64(f.value) ELSE counter
    IN [iv |-> IVBytes_uint64(c),
        counter |-> Add64(c, 1),
        shared |-> IF fetch THEN f.shared ELSE shared,
        fetched |-> IF fetch THEN << f.value >> ELSE << >>]

\* values of the shared counter over its range: at the start, around 2^54 and at the top
SharedValues ==
    { Zero64, One64,
      <<UINT16_MOD - 2, UINT16_MOD - 1, UINT16_MOD - 1, Pow2(16 - IV_MASK_BITS) - 1>>,
      <<0, 0, 0, Pow2(16 - IV_MASK_BITS)>>,
      <<UINT16_MOD - 3, UINT16_MOD - 1, UINT16_MOD - 1, UINT16_MOD - 1>> }

\* Backends start with _iv_counter = 0.  The shared counter has any of these values,
\* and backend 1 has either made no call yet or fetched the value 1 long ago, when the
\* shared counter was 0, and issued the first IV of that batch.
InitIV_uint64 ==
    \E s \in SharedValues, ran \in BOOLEAN :
        /\ ran => s # Zero64
        /\ shared_iv = s
        /\ _iv_counter = [p \in Procs |-> IF p = 1 /\ ran
                                          THEN Add64(ShiftIVBits_uint64(One64), 1) ELSE Zero64]
        /\ issued = IF ran THEN { IVBytes_uint64(ShiftIVBits_uint64(One64)) } ELSE {}
        /\ nissued = IF ran THEN 1 ELSE 0
        /\ fetched = [p \in Procs |-> IF p = 1 /\ ran THEN << One64 >> ELSE << >>]
        /\ calls = [p \in Procs |-> 0]
        /\ page = FreshPage
        /\ file_encryption_tag_size = 16
        /\ file_encryption_method = "AES_GCM"
        /\ bufenc = BufEncFor(file_encryption_method, file_encryption_tag_size)

\* PlaceNewIV(encst->iv, BUFENC_IV_SIZE) in backend p
PlaceIV(p) ==
    /\ calls[p] < MaxCalls
    /\ LET n == PlaceNewIV_uint64(_iv_counter[p], shared_iv)
       IN /\ _iv_counter' = [_iv_counter EXCEPT ![p] = n.counter]
          /\ shared_iv' = n.shared
          /\ fetched' = [fetched EXCEPT ![p] = @ \o n.fetched]
          /\ issued' = issued \cup {n.iv}
          /\ nissued' = nissued + 1
          /\ page' = [page EXCEPT !.iv = n.iv]
          /\ last' = [op |-> "placeiv", proc |-> p, fetched |-> n.fetched # << >>,
                      reissued |-> n.iv \in issued]
    /\ calls' = [calls EXCEPT ![p] = @ + 1]
    /\ UNCHANGED <<file_encryption_tag_size, file_encryption_method, bufenc>>
    /\ UNCHANGED <<pfs, file, cluster_page_features>>
    /\ UNCHANGED auxvars

-----------------------------------------------------------------------------
(* Specifications *)

\* backends that have not encrypted anything yet
FreshIV ==
    /\ shared_iv = 0
    /\ _iv_counter = [p \in Procs |-> 0]
    /\ issued = {}
    /\ nissued = 0
    /\ fetched = [p \in Procs |-> << >>]
    /\ calls = [p \in Procs |-> 0]
    /\ page = FreshPage
    /\ file_encryption_tag_size = 0
    /\ file_encryption_method = "AES_GCM"
    /\ bufenc = BufEncFor(file_encryption_method, file_encryption_tag_size)

\* no initializer inside WritePageFeatureSet, no catalog file made by hand
NoAux ==
    /\ writers = << >>
    /\ catalog = << >>

\* the registry's life; the backends stay as started
Init == InitReg /\ FreshIV /\ NoAux

Next ==
    \/ \E r \in {"pfs", "cluster"}, name \in Names, size \in Sizes : AddFeature(r, name, size)
    \/ \E r \in {"pfs", "cluster"} : Write(r)
    \/ Read

Spec == Init /\ [][Next]_vars

\* the backends encrypting pages; the registry stays as created
InitNonce ==
    /\ pfs = NewPageFeatureSet(MaxCapacity, MaxFeatures)
    /\ file = NoFile
    /\ cluster_page_features = NULL
    /\ last = NoCall
    /\ InitIV
    /\ NoAux

NextNonce ==
    \E p \in Procs, perm \in BOOLEAN, b \in BlockNumbers, f \in FileNumbers, ok \in BOOLEAN :
        EncryptPage(p, FreshPage, perm, b, f, ok)

SpecNonce == InitNonce /\ [][NextNonce]_vars

\* the encryption set-ups: the cipher of the method and the tag bytes that the size of
\* the encryption feature leaves after the IV (encryption_size - BUFENC_IV_SIZE)
EncryptionSetups ==
    { [method |-> "AES_GCM", tag_size |-> 16],
      [method |-> "AES_GCM", tag_size |-> 0],
      [method |-> "AES_XTS", tag_size |-> 0] }

\* backends encrypting pages and decrypting what was encrypted
InitCrypto ==
    /\ pfs = NewPageFeatureSet(MaxCapacity, MaxFeatures)
    /\ file = NoFile
    /\ cluster_page_features = NULL
    /\ last = NoCall
    /\ NoAux
    /\ shared_iv = 0
    /\ _iv_counter = [p \in Procs |-> 0]
    /\ issued = {}
    /\ nissued = 0
    /\ fetched = [p \in Procs |-> << >>]
    /\ calls = [p \in Procs |-> 0]
    /\ page = FreshPage
    /\ \E e \in EncryptionSetups :
          /\ file_encryption_method = e.method
          /\ file_encryption_tag_size = e.tag_size
          /\ bufenc = BufEncFor(e.method, e.tag_size)

NextCrypto ==
    \/ /\ nissued < MaxEncrypted
       /\ \E p \in Procs, pg0 \in Pages, perm \in BOOLEAN, b \in BlockNumbers,
             f \in FileNumbers, ok \in BOOLEAN : EncryptPage(p, pg0, perm, b, f, ok)
    \/ \E hdr \in Headers, perm \in BOOLEAN, b \in BlockNumbers,
          f \in FileNumbers \cup OtherFileNumbers : DecryptPage(hdr, perm, b, f)

SpecCrypto == InitCrypto /\ [][NextCrypto]_vars

\* a backend starting on a catalog file of any content, then looking offsets up
InitS == InitStartup /\ FreshIV

NextStartup ==
    \/ Read
    \/ \E name \in NoNames : ClusterPageFeatureInitEmpty(name)
    \/ \E name \in Names : NamedFeatureOffset(name)

SpecStartup == InitS /\ [][NextStartup]_vars

\* a feature name of 20 characters, the longest that the "%20[^=]" of the line format takes
user_feature_name_20 ==
    <<"u","s","e","r","_","f","e","a","t","u","r","e","_","n","a","m","e","_","2","0">>

\* catalog files with sizes that are and are not multiples of 8 and names short and long
LoadNames == {foo, user_feature_name_20}
LoadOffsets == {0, 5, 8}
LoadSizes == {5, 8}
LoadTotals == {5, 8, 13, 16}
LoadSeqs == UNION { [1..n -> [name : LoadNames, offset : LoadOffsets, size : LoadSizes]] :
                      n \in 0..MaxLines }
LoadCatalogs == [count : HeaderCounts, total : LoadTotals, lines : LoadSeqs]

\* a backend starting on one of these files
InitLoad ==
    /\ catalog \in LoadCatalogs
    /\ file = CatalogFile(catalog)
    /\ writers = << >>
    /\ pfs = NewPageFeatureSet(MaxCapacity, MaxFeatures)
    /\ cluster_page_features = NULL
    /\ last = NoCall
    /\ FreshIV

SpecLoad == InitLoad /\ [][NextStartup]_vars

\* the catalog files a backend can have loaded before it sets buffer encryption up
BufEncCatalogs ==
    { [count |-> 1, total |-> 32,
       lines |-> << [name |-> encryption_tags, offset |-> 0, size |-> 32] >>],
      [count |-> 1, total |-> 16,
       lines |-> << [name |-> encryption_tags, offset |-> 0, size |-> 16] >>],
      [count |-> 2, total |-> 96,
       lines |-> << [name |-> encryption_tags, offset |-> 0, size |-> 32],
                    [name |-> extended_checksums, offset |-> 32, size |-> 64] >>],
      [count |-> 1, total |-> 64,
       lines |-> << [name |-> extended_checksums, offset |-> 0, size |-> 64] >>],
      [count |-> 1, total |-> 8,
       lines |-> << [name |-> foo, offset |-> 0, size |-> 8] >>] }

\* the add calls made on a registry that is not the installed one
InitdbAdds ==
    { << [name |-> encryption_tags, size |-> 64] >>,
      << [name |-> extended_checksums, size |-> 0], [name |-> foo, size |-> 5] >> }

EncryptionMethods == {DISABLED_ENCRYPTION_METHOD, "AES_GCM", "AES_XTS"}

\* a backend with a loaded registry and buffer encryption not yet set up, beside a
\* registry built in memory
InitBufEnc ==
    /\ catalog \in BufEncCatalogs
    /\ file = CatalogFile(catalog)
    /\ cluster_page_features = ReadPageFeatureSet(file, [isbuiltin |-> 0, builtin |-> 0]).pfs
    /\ \E a \in InitdbAdds :
          pfs = Built(NewPageFeatureSet(MaxCapacity, MaxFeatures), a, Len(a),
                      [isbuiltin |-> 0, builtin |-> 0])
    /\ last = NoCall
    /\ writers = << >>
    /\ shared_iv = 0
    /\ _iv_counter = [p \in Procs |-> 0]
    /\ issued = {}
    /\ nissued = 0
    /\ fetched = [p \in Procs |-> << >>]
    /\ calls = [p \in Procs |-> 0]
    /\ page = FreshPage
    /\ file_encryption_tag_size = 0
    /\ file_encryption_method = DISABLED_ENCRYPTION_METHOD
    /\ bufenc = NoBufEnc

NextBufEnc ==
    \/ \E m \in EncryptionMethods, fails \in {0} \cup CtxCalls :
          InitializeBufferEncryption(m, fails)
    \/ \E r \in {"pfs", "cluster"}, name \in Names : NamedFeatureSize(r, name)
    \/ \E r \in {"pfs", "cluster"}, feature \in 0..(PF_MAX_FEATURE - 1) : FeatureSize(r, feature)
    \/ \E pg \in PageHeaders, name \in LookupNames, ac \in BOOLEAN :
          PageGetNamedFeatureOffset(pg, name, ac)
    \/ \E pg \in PageHeaders, name \in LookupNames, ac \in BOOLEAN :
          PageGetNamedFeatureSize(pg, name, ac)

SpecBufEnc == InitBufEnc /\ [][NextBufEnc]_vars

\* a second name of 20 characters, the same as the first up to the last one
user_feature_name_21 ==
    <<"u","s","e","r","_","f","e","a","t","u","r","e","_","n","a","m","e","_","2","1">>

\* names up to the 20 characters of the catalog format, and sizes for them
LongNames == {foo, user_feature_name_20, user_feature_name_21}
LongNameSizes == {5}

\* the registry's life with such names
NextNames ==
    \/ \E r \in {"pfs", "cluster"}, name \in LongNames, size \in LongNameSizes :
          AddFeature(r, name, size)
    \/ \E r \in {"pfs", "cluster"} : Write(r)
    \/ Read

SpecNames == Init /\ [][NextNames]_vars

\* requested sizes over the range of uint16, up to its top
WideSizes == {0, 1, 8, 64, UINT16_MOD - 8, UINT16_MOD - 7, UINT16_MOD - 1}

\* add calls with such sizes on a registry being built
NextSizes ==
    \E name \in Names, size \in WideSizes : AddFeature("pfs", name, size)

SpecSizes == Init /\ [][NextSizes]_vars

\* the backends drawing IVs, the shared counter anywhere in its range
InitShift ==
    /\ pfs = NewPageFeatureSet(MaxCapacity, MaxFeatures)
    /\ file = NoFile
    /\ cluster_page_features = NULL
    /\ last = NoCall
    /\ InitIV_uint64
    /\ NoAux

NextShift == \E p \in Procs : PlaceIV(p)

SpecShift == InitShift /\ [][NextShift]_vars

\* backends that have not encrypted anything yet; they will encrypt pages with a tag,
\* exit and be replaced
InitRestart ==
    /\ InitNonce
    /\ nissued = 0
    /\ file_encryption_tag_size = 16

RestartBlocks == {42}

NextRestart ==
    \/ /\ nissued < MaxEncrypted
       /\ \E p \in Procs, perm \in BOOLEAN, b \in RestartBlocks, f \in FileNumbers,
             ok \in BOOLEAN : EncryptPage(p, FreshPage, perm, b, f, ok)
    \/ \E p \in Procs : Restart(p)

SpecRestart == InitRestart /\ [][NextRestart]_vars

\* two initializers writing their registries to one path, step by step
InitW == InitWriters /\ FreshIV

NextWriters ==
    \/ \E w \in Writers : WriterOptimize(w)
    \/ \E w \in Writers : WriterOpen(w)
    \/ \E w \in Writers : WriterHeader(w)
    \/ \E w \in Writers : WriterLine(w)
    \/ \E w \in Writers : WriterFinish(w)

SpecWriters == InitW /\ [][NextWriters]_vars

-----------------------------------------------------------------------------
(* Properties *)

\* the registries that exist in the current state
Registries == {pfs} \cup (IF cluster_page_features = NULL THEN {} ELSE {cluster_page_features})

\* the registry the last call worked on, as it is now
After == Reg(last.reg)

\* some descriptor of p is named name
NameIn(p, name) == \E i \in 1..p.feat_count : p.feats[i].name = name

IsBuiltinName(name) == name \in {encryption_tags, extended_checksums}

\* the least multiple of 8 that is >= s
LeastMultipleOf8(s) == CHOOSE m \in s..(s + 7) : m % 8 = 0

\* the bytes of p that no descriptor has taken
Remaining(p) == p.bytes_managed - p.bytes_used

\* the last call was an add that appended one descriptor
Appended == last.op = "add" /\ last.ret /\ After.feat_count = last.before.feat_count + 1

C2_UsedWithinManaged == pfs.bytes_used <= pfs.bytes_managed

\* sizes positive multiples of 8, offsets the running sum of the sizes, sizes summing to bytes_used
LayoutOk(p) ==
    /\ \A i \in 1..p.feat_count :
          /\ p.feats[i].size > 0
          /\ p.feats[i].size % 8 = 0
          /\ p.feats[i].offset = SumSizes(p.feats, i - 1)
    /\ SumSizes(p.feats, p.feat_count) = p.bytes_used

\* C3: in every reachable state every registry's descriptors have sizes that are positive
\* multiples of 8, offsets contiguous from 0, and sizes summing to bytes_used
C3_LayoutContiguous == \A p \in Registries : LayoutOk(p)

\* C4 as stated: on a locked registry an add with a built-in name fails, and an add with
\* a new non-built-in name succeeds whenever a descriptor slot and the bytes remain
C4_LockedAdd ==
    (last.op = "add" /\ last.before.locked) =>
        /\ IsBuiltinName(last.name) => ~last.ret
        /\ ( /\ ~IsBuiltinName(last.name)
             /\ ~NameIn(last.before, last.name)
             /\ last.before.feat_count < last.before.feat_capacity
             /\ LeastMultipleOf8(last.size) <= Remaining(last.before) ) => last.ret

\* C4 amended: on a locked registry an add with a built-in name fails, and an add with a
\* new non-built-in name and a requested size other than 0 succeeds whenever a
\* descriptor slot and the bytes remain
C4_LockedAddNonZero ==
    (last.op = "add" /\ last.before.locked) =>
        /\ IsBuiltinName(last.name) => ~last.ret
        /\ ( /\ ~IsBuiltinName(last.name)
             /\ ~NameIn(last.before, last.name)
             /\ last.size > 0
             /\ last.before.feat_count < last.before.feat_capacity
             /\ LeastMultipleOf8(last.size) <= Remaining(last.before) ) => last.ret

\* C4 happens: a user feature has been appended to a locked registry
C4_Witness ==
    /\ Appended
    /\ last.before.locked
    /\ ~IsBuiltinName(last.name)

\* new is old, still locked, with old's descriptors where they were and only descriptors
\* with user names after them
KeptLocked(old, new) ==
    /\ new # NULL
    /\ new.locked
    /\ new.feat_count >= old.feat_count
    /\ \A i \in 1..old.feat_count :
          /\ new.feats[i].name = old.feats[i].name
          /\ new.feats[i].offset = old.feats[i].offset
          /\ new.feats[i].size = old.feats[i].size
    /\ \A i \in (old.feat_count + 1)..new.feat_count : ~IsBuiltinName(new.feats[i].name)

\* C5: a locked registry stays locked, no step changes the name, offset, size or position
\* of a descriptor it has, and a step only appends descriptors with user names
C5_LockedStaysLocked ==
    [][ /\ pfs.locked => KeptLocked(pfs, pfs')
        /\ (cluster_page_features # NULL /\ cluster_page_features.locked)
              => KeptLocked(cluster_page_features, cluster_page_features') ]_vars

\* C5 happens: a locked registry with two descriptors, the second appended after the lock,
\* has been through a further write
C5_Witness ==
    /\ last.op = "write"
    /\ last.before.locked
    /\ last.before.feat_count >= 2
    /\ file.exists
    /\ ScanHeader(file.text).count < last.before.feat_count

\* a and b have the same descriptors (name, offset, size) in the same order, the same
\* built-in bitmap and the same resolved offset for every built-in
SameLayout(a, b) ==
    /\ a.feat_count = b.feat_count
    /\ \A i \in 1..a.feat_count :
          /\ a.feats[i].name = b.feats[i].name
          /\ a.feats[i].offset = b.feats[i].offset
          /\ a.feats[i].size = b.feats[i].size
    /\ a.builtin_bitmap = b.builtin_bitmap
    /\ \A f \in 0..(PF_MAX_FEATURE - 1) :
          PageFeatureSetFeatureOffset(a, f) = PageFeatureSetFeatureOffset(b, f)

\* C6: a successful write of an unlocked registry with at least one descriptor followed by
\* a read of the file: the read succeeds and returns the layout of the registry that was
\* written
C6_RoundTrip ==
    [][ ( /\ last.op = "write" /\ last.reg = "pfs" /\ last.ret /\ ~last.before.locked
          /\ pfs.feat_count >= 1
          /\ last'.op = "read" )
        => ( /\ cluster_page_features' # NULL
             /\ SameLayout(pfs, cluster_page_features') ) ]_vars

\* C7: an add with a name that a descriptor of the registry already has returns false and
\* leaves the registry as it was, locked or not, whatever the size
C7_DuplicateNameFails ==
    (last.op = "add" /\ NameIn(last.before, last.name)) =>
        (~last.ret /\ After = last.before)

\* C7 happens: the name was there, and a slot and the bytes for the request were free,
\* on a locked registry
C7_Witness ==
    /\ last.op = "add"
    /\ NameIn(last.before, last.name)
    /\ last.before.locked
    /\ last.before.feat_count < last.before.feat_capacity
    /\ LeastMultipleOf8(last.size) <= Remaining(last.before)
    /\ last.size > 0

\* the k-th feature line of the catalog text t, read as ReadPageFeatureSet reads it
RECURSIVE FileLineFrom(_, _, _)
FileLineFrom(t, pos, k) ==
    IF k = 1 THEN ScanFeatureLine(t, pos)
    ELSE FileLineFrom(t, ScanFeatureLine(t, pos).pos, k - 1)

FileLine(t, k) == FileLineFrom(t, ScanHeader(t).pos, k)

\* the catalog file of one feature foo of 8 bytes
foo_8_text ==
    <<"f","e","a","t","u","r","e","s"," ","1"," ","8","\n","f","o","o","=","0",",","8","\n">>

\* C8: a user feature added with requested size s > 0 is stored with the least multiple
\* of 8 that is >= s (8 for 1 and for 5), and a successful write puts the stored sizes in
\* the file: foo requested with 1 or 5 bytes is the line foo=0,8
C8_RoundedSizeStoredAndWritten ==
    /\ (Appended /\ ~IsBuiltinName(last.name) /\ last.size > 0) =>
          /\ After.feats[After.feat_count].size = LeastMultipleOf8(last.size)
          /\ last.size \in {1, 5} => After.feats[After.feat_count].size = 8
    /\ (last.op = "write" /\ last.ret) =>
          /\ file.exists
          /\ \A i \in 1..After.feat_count :
                /\ FileLine(file.text, i).ok
                /\ FileLine(file.text, i).feat_name = After.feats[i].name
                /\ FileLine(file.text, i).feat_size = After.feats[i].size
                /\ FileLine(file.text, i).feat_off = After.feats[i].offset
          /\ (After.feat_count = 1 /\ After.feats[1].name = foo /\ After.feats[1].size = 8)
                => file.text = foo_8_text

\* C8 happens: the registry whose only feature is foo, requested with 1 or 5 bytes, has
\* been written
C8_Witness ==
    /\ last.op = "write"
    /\ last.ret
    /\ ~last.before.locked
    /\ pfs.feat_count = 1
    /\ pfs.feats[1].name = foo
    /\ pfs.feats[1].size = 8

C10_BuiltinDefaultSize ==
    ( /\ last.op = "add"
      /\ ~last.before.locked
      /\ IsBuiltinName(last.name)
      /\ last.size = 0
      /\ last.before.feat_count < last.before.feat_capacity
      /\ ~NameIn(last.before, last.name) )
    => ( /\ last.ret
         /\ After.feat_count = last.before.feat_count + 1
         /\ After.feats[After.feat_count].name = last.name
         /\ After.feats[After.feat_count].size =
               builtin_feature_descs[BuiltinIndex(last.name) + 1].size
         /\ After.feats[After.feat_count].isbuiltin = 1
         /\ After.feats[After.feat_count].builtin = BuiltinIndex(last.name)
         /\ PageFeatureSetHasFeature(After, BuiltinIndex(last.name)) )

\* C11: a write on a path where a file exists returns false, leaves the file as it was and
\* leaves the registry's locked flag as it was; no call changes a file that exists
C11_ExistingFileNeverOverwritten ==
    /\ last.filebefore.exists => file = last.filebefore
    /\ (last.op = "write" /\ last.filebefore.exists) =>
          (~last.ret /\ After.locked = last.before.locked)

\* C11 happens: an unlocked registry with descriptors has been written to a path where a
\* file was
C11_Witness ==
    /\ last.op = "write"
    /\ last.filebefore.exists
    /\ ~last.before.locked
    /\ last.before.feat_count >= 1
    /\ ~After.locked

\* the text of the catalog file of the registry p
CatalogText(p) == HeaderText(p) \o LinesText(p.feats, p.feat_count)

\* the file is the catalog of p: p's header, then p's descriptors line by line
HoldsLayoutOf(p) ==
    /\ file.exists
    /\ file.text = CatalogText(p)
    /\ ScanHeader(file.text).ok
    /\ ScanHeader(file.text).count = p.feat_count
    /\ ScanHeader(file.text).size = p.bytes_used
    /\ \A i \in 1..p.feat_count :
          /\ FileLine(file.text, i).ok
          /\ FileLine(file.text, i).feat_name = p.feats[i].name
          /\ FileLine(file.text, i).feat_off = p.feats[i].offset
          /\ FileLine(file.text, i).feat_size = p.feats[i].size

WriterDone(w) == writers[w].pc = "done"
WriterWon(w) == WriterDone(w) /\ writers[w].ret

\* no two calls have returned true, and once both have returned the file of a call that
\* returned true is that caller's catalog
WritersOutcome ==
    /\ ~(WriterWon(1) /\ WriterWon(2))
    /\ \A w \in Writers :
          (WriterWon(w) /\ WriterDone(3 - w)) => HoldsLayoutOf(writers[w].pfs)

\* C12: two initializers in WritePageFeatureSet on one path with different registries, in
\* every interleaving: at most one call returns true, a call whose fopen finds the file
\* never changes the file, and when both have returned the file is exactly the catalog of
\* the call that returned true
C12_ConcurrentWritersOneWins ==
    /\ []WritersOutcome
    /\ [][ \A w \in Writers :
              ( /\ writers'[w] # writers[w]
                /\ \/ (writers[w].pc = "open" /\ file.exists)
                   \/ (WriterDone(w) /\ ~writers[w].opened) )
              => file' = file ]_vars

\* C12 happens: both calls have returned, one true, the other false after its fopen met
\* the file while the first was still writing its lines
C12_Witness ==
    \E w \in Writers :
        /\ WriterWon(w)
        /\ writers[w].pfs.feat_count = 2
        /\ WriterDone(3 - w)
        /\ ~writers[3 - w].opened
        /\ writers[3 - w].rival = "lines"

\* the catalog's lines, as the file was made
CatLines == catalog.lines
CatSum == SumSizes(CatLines, Len(CatLines))

\* some line's offset is not the sum of the sizes of the lines before it
Misaligned == \E i \in 1..Len(CatLines) : CatLines[i].offset # SumSizes(CatLines, i - 1)

\* the load failed: an error was reported and no registry was returned
LoadFailed == cluster_page_features = NULL /\ ~last.ret /\ last.msg # ""

InstalledEmpty ==
    /\ last.ret
    /\ last.msg = ""
    /\ file = last.filebefore
    /\ cluster_page_features # NULL
    /\ cluster_page_features.feat_capacity = 0
    /\ cluster_page_features.bytes_managed = 0
    /\ cluster_page_features.bytes_used = 0
    /\ cluster_page_features.feat_count = 0
    /\ cluster_page_features.feats = << >>
    /\ cluster_page_features.builtin_bitmap = 0

\* C15 as stated: ClusterPageFeatureInit with a NULL or empty name reads no file, raises
\* no error and installs an unlocked registry with zero capacity, zero bytes used, no
\* descriptors and an empty built-in bitmap
C15_EmptyNameUnlocked ==
    last.op = "init" => (InstalledEmpty /\ ~cluster_page_features.locked)

\* C15 amended: ClusterPageFeatureInit with a NULL or empty name reads no file, raises no
\* error and installs a locked registry with zero capacity, zero bytes used, no
\* descriptors and an empty built-in bitmap
C15_EmptyNameLocked ==
    last.op = "init" => (InstalledEmpty /\ cluster_page_features.locked)

\* C15 happens: the call was made with name NULL in a data directory whose catalog file
\* would have loaded as a registry of two features
C15_Witness ==
    /\ last.op = "init"
    /\ last.name = NULL
    /\ catalog.count = 2
    /\ Len(CatLines) = 2
    /\ ~Misaligned
    /\ CatSum = catalog.total
    /\ CatLines[1].name # CatLines[2].name

\* the bit of a built-in name in the built-in bitmap
NameBit(name) == IF name = encryption_tags THEN 0 ELSE 1

IsUserNamed(d) == ~IsBuiltinName(d.name)

\* name and size of the descriptors with user names, in their order
UserOrder(feats) ==
    LET u == SelectSeq(feats, IsUserNamed)
    IN [i \in 1..Len(u) |-> << u[i].name, u[i].size >>]

\* built-ins first by ascending bit, the user descriptors after them, offsets the running sum
BuiltinsFirst(p) ==
    /\ \A i, j \in 1..p.feat_count :
          (i < j /\ IsBuiltinName(p.feats[j].name)) =>
              /\ IsBuiltinName(p.feats[i].name)
              /\ NameBit(p.feats[i].name) < NameBit(p.feats[j].name)
    /\ \A i \in 1..p.feat_count : p.feats[i].offset = SumSizes(p.feats, i - 1)

\* the last call was a write, which runs OptimizePageFeatureSet first, of a registry that
\* was unlocked and had two descriptors or more, one of them a built-in
OptimizedUnlocked ==
    /\ last.op = "write"
    /\ ~last.before.locked
    /\ last.before.feat_count >= 2
    /\ \E i \in 1..last.before.feat_count : IsBuiltinName(last.before.feats[i].name)

\* C16: after OptimizePageFeatureSet on an unlocked registry with a built-in and at least
\* two descriptors, the built-ins come first in ascending bit index, the user descriptors
\* follow in their declaration order, and every offset is the sum of the sizes before it
C16_BuiltinsFirstUsersInOrder ==
    OptimizedUnlocked =>
        /\ After.feat_count = last.before.feat_count
        /\ BuiltinsFirst(After)
        /\ UserOrder(After.feats) = UserOrder(last.before.feats)

\* name, size and built-in tag of a descriptor
DescKey(d) == [name |-> d.name, size |-> d.size, isbuiltin |-> d.isbuiltin, builtin |-> d.builtin]

CountOf(feats, k) == Cardinality({ i \in DOMAIN feats : DescKey(feats[i]) = k })

SameMultiset(a, b) ==
    /\ Len(a) = Len(b)
    /\ \A i \in DOMAIN a : CountOf(a, DescKey(a[i])) = CountOf(b, DescKey(a[i]))

\* C17: OptimizePageFeatureSet, run by every write, leaves feat_count, bytes_used,
\* bytes_managed, the built-in bitmap and the multiset of (name, size, built-in tag)
\* descriptors as they were, and its check cur_off == bytes_used && cur_feat == feat_count
\* holds
C17_OptimizePreservesContent ==
    last.op = "write" =>
        /\ last.asserts
        /\ After.feat_count = last.before.feat_count
        /\ After.bytes_used = last.before.bytes_used
        /\ After.bytes_managed = last.before.bytes_managed
        /\ After.builtin_bitmap = last.before.builtin_bitmap
        /\ SameMultiset(After.feats, last.before.feats)

\* C18: PageFeatureSetNamedFeatureOffset(pfs, name) returns BLCKSZ - offset - size of the
\* descriptor of pfs named name, a distance from the start of the page, and 0 when pfs
\* has no descriptor of that name
C18_OffsetFromPageStart ==
    last.op = "offset" =>
        /\ \A i \in 1..After.feat_count :
              After.feats[i].name = last.name =>
                  last.ret = BLCKSZ - After.feats[i].offset - After.feats[i].size
        /\ ~NameIn(After, last.name) => last.ret = 0

\* C18 happens: the offset of the second of two loaded features, stored 8 bytes from the
\* end of the page with 16 bytes, was looked up
C18_Witness ==
    /\ last.op = "offset"
    /\ After.feat_count = 2
    /\ After.feats[2].name = last.name
    /\ After.feats[2].offset = 8
    /\ After.feats[2].size = 16
    /\ last.ret = 8168

\* the last call was a DecryptPage of an encrypted page with the block number, the file
\* number and the header bytes of its encryption
DecryptedAsEncrypted ==
    /\ last.op = "decrypt"
    /\ last.blkno = last.enc.blkno
    /\ last.fileno = last.enc.fileno
    /\ last.hdr = last.enc.plain.hdr

\* C19: DecryptPage(page', _, b, f) on the bytes that EncryptPage(page, _, b, f) produced
\* succeeds, restores the plaintext region and leaves the unencrypted header as it was
C19_RoundTrip ==
    DecryptedAsEncrypted =>
        /\ last.ret
        /\ page.body = last.enc.plain.body
        /\ page.hdr = last.enc.plain.hdr

\* C20: DecryptPage of an encrypted page with a block number or a file number other than
\* the one of its encryption, or with changed header bytes, fails, whatever the size of
\* the encryption feature
C20_WrongBlockFileHeaderFails ==
    (last.op = "decrypt" /\ ~DecryptedAsEncrypted) => ~last.ret

\* the latest call was InitializeBufferEncryption with an encryption method
InitializedEnabled == last.op = "initenc" /\ last.method # DISABLED_ENCRYPTION_METHOD

C22_DisabledIsNoOp ==
    (last.op = "initenc" /\ last.method = DISABLED_ENCRYPTION_METHOD) =>
        /\ last.ret
        /\ bufenc = last.before.bufenc
        /\ file_encryption_method = last.before.file_encryption_method
        /\ file_encryption_tag_size = last.before.file_encryption_tag_size

\* the disabled method passed on a backend whose registry holds the encryption feature
C22_Witness ==
    /\ last.op = "initenc"
    /\ last.method = DISABLED_ENCRYPTION_METHOD
    /\ last.ret
    /\ PageFeatureSetHasNamedFeature(cluster_page_features, encryption_tags)
\* C23: DecryptPage works with the IV and the tag stored in the page: a DecryptPage call
\* leaves the page's IV and tag bytes and every backend's private counter as they were
\* and fetches nothing from the shared counter
C23_DecryptKeepsIVAndCounters ==
    [][ last'.op = "decrypt" =>
            /\ page'.iv = page.iv
            /\ page'.authtag = page.authtag
            /\ _iv_counter' = _iv_counter
            /\ shared_iv' = shared_iv
            /\ fetched' = fetched ]_vars

\* a page decrypted after its backend has drawn IVs
C23_Witness ==
    /\ last.op = "decrypt"
    /\ last.ret
    /\ page.iv = IVBytes(ShiftIVBits(1) + 1)
    /\ _iv_counter[1] = ShiftIVBits(1) + 2
    /\ fetched[1] = << 1 >>
\* the latest call was a page-level lookup on a page whose feature bitmap is not zero and
\* is not the built-in bitmap of the loaded registry
PageBitmapDiffers ==
    /\ last.op \in {"pageoffset", "pagesize"}
    /\ last.page # NULL
    /\ last.page.extended_feats
    /\ last.page.features # 0
    /\ last.page.features # cluster_page_features.builtin_bitmap

\* C24: a page-level lookup on a page whose stored feature bitmap is not zero and differs
\* from the loaded registry's built-in bitmap does not return: no offset or size computed
\* from the loaded registry comes back
C24_ForeignBitmapIsFatal ==
    PageBitmapDiffers => ~last.returned
\* the EncryptPage calls all backends have made since the initial state
RECURSIVE CallsUpTo(_)
CallsUpTo(n) == IF n = 0 THEN 0 ELSE calls[n] + CallsUpTo(n - 1)

\* the EncryptPage calls backend p has made since it started: only backend 1 has made
\* calls before the initial state
TotalCalls(p) == IF p = 1 THEN calls[1] + (nissued - CallsUpTo(NumProcs)) ELSE calls[p]

BatchSize == Pow2(IV_MASK_BITS)

\* ceil(m / 1024)
BatchesFor(m) == (m + BatchSize - 1) \div BatchSize

\* the uint64 held in 8 bytes, least significant first
RECURSIVE BytesValue(_, _)
BytesValue(bytes, n) == IF n = 0 THEN 0 ELSE bytes[1] + 256 * BytesValue(Tail(bytes), n - 1)

\* C25: a backend fetches from the shared counter exactly at the EncryptPage calls at
\* which the low IV_MASK_BITS bits of its private counter are zero, so that after M calls
\* it has made ceil(M / 1024) fetches; the IV of its (M+1)-th call is the value fetched
\* last, shifted left by IV_MASK_BITS, plus M mod 1024
C25_FetchOncePerBatch ==
    /\ [](\A p \in Procs : Len(fetched[p]) = BatchesFor(TotalCalls(p)))
    /\ [][ \A p \in Procs :
              calls'[p] = calls[p] + 1 =>
                 /\ (fetched'[p] # fetched[p]) <=> (_iv_counter[p] % BatchSize = 0)
                 /\ Len(fetched'[p]) <= Len(fetched[p]) + 1
                 /\ page'.iv = IVBytes(fetched'[p][Len(fetched'[p])] * BatchSize
                                          + (TotalCalls(p) % BatchSize)) ]_vars

\* backend 1 has used up its first batch of 1024 IVs and made its second fetch
C25_Witness ==
    /\ TotalCalls(1) = BatchSize + 1
    /\ Len(fetched[1]) = 2
    /\ page.iv = IVBytes(fetched[1][2] * BatchSize)

WroteWithoutReordering ==
    /\ last.op = "write"
    /\ \/ last.before.locked
       \/ last.before.builtin_bitmap = 0
       \/ last.before.feat_count <= 1

\* every descriptor of p has a name that is not a built-in's
OnlyUserFeatures(p) == \A i \in 1..p.feat_count : ~IsBuiltinName(p.feats[i].name)

\* the file holds the header of p and the descriptors of p in the order of p.feats
WrittenInDeclarationOrder(p) ==
    file.text = HeaderText(p) \o LinesText(p.feats, p.feat_count)

\* C27 (first part): WritePageFeatureSet leaves descriptors, offsets, sizes, counters and
\* bitmap of such a registry as they were, the lock flag being set only by the write
\* that succeeded
C27_EarlyExitKeepsRegistry ==
    WroteWithoutReordering =>
        /\ [After EXCEPT !.locked = last.before.locked] = last.before
        /\ After.locked = (last.before.locked \/ last.ret)

\* C27: the first part, and a registry holding only user features is written in
\* declaration order
C27_UserFeaturesInDeclarationOrder ==
    /\ C27_EarlyExitKeepsRegistry
    /\ (last.op = "write" /\ last.ret /\ OnlyUserFeatures(last.before))
           => WrittenInDeclarationOrder(last.before)
\* the last call was a ReadPageFeatureSet that returned a registry
Loaded == last.op = "read" /\ last.ret /\ cluster_page_features # NULL

\* the registry is locked, its count and bytes are the header's, and it has one
\* descriptor per file line with the line's offset and size, every size a multiple of 8
LoadedAsCounted ==
    /\ cluster_page_features.locked
    /\ cluster_page_features.feat_count = catalog.count
    /\ cluster_page_features.bytes_used = catalog.total
    /\ cluster_page_features.bytes_managed = catalog.total
    /\ Len(CatLines) = catalog.count
    /\ \A i \in 1..Len(CatLines) :
          /\ cluster_page_features.feats[i].offset = CatLines[i].offset
          /\ cluster_page_features.feats[i].size = CatLines[i].size
          /\ CatLines[i].size % 8 = 0

\* C28 without the names: what a successful ReadPageFeatureSet returns is locked and
\* agrees with the file in count, total, offsets and sizes, and no file with a size that
\* is not a multiple of 8 loads
C28_LoadedCountsAndSizes == Loaded => LoadedAsCounted

\* C28: whenever ReadPageFeatureSet succeeds, the registry is locked, feat_count is the
\* header's count, bytes_used and bytes_managed are the header's total, and each
\* descriptor has the name, offset and size of its file line, in file order; no file
\* with a line whose size is not a multiple of 8 loads
C28_LoadedAsTheFileSays ==
    Loaded =>
        /\ LoadedAsCounted
        /\ \A i \in 1..Len(CatLines) : cluster_page_features.feats[i].name = CatLines[i].name
\* the size that registry p records for the feature named name, 0 if it has none
RecordedSize(p, name) ==
    IF \E i \in 1..p.feat_count : p.feats[i].name = name
    THEN p.feats[CHOOSE i \in 1..p.feat_count :
                    /\ p.feats[i].name = name
                    /\ \A j \in 1..(i - 1) : p.feats[j].name # name].size
    ELSE 0

\* C29: PageFeatureSetNamedFeatureSize(pfs, name) and PageFeatureSetFeatureSize(pfs,
\* feature) return the size recorded for the feature in the registry passed as argument,
\* 0 if it has no such feature, whether or not that registry is the installed one
C29_SizeOfTheRegistryPassed ==
    last.op \in {"size", "featsize"} => last.ret = RecordedSize(last.before, last.name)
\* the bytes that the built-ins of p with a bit index up to f take together
RECURSIVE BuiltinBytesUpTo(_, _)
BuiltinBytesUpTo(p, f) ==
    IF f < 0 THEN 0
    ELSE RecordedSize(p, builtin_feature_descs[f + 1].name) + BuiltinBytesUpTo(p, f - 1)

\* every built-in that p holds resolves to the offset that the sizes of the built-ins
\* with lower or equal bit index give: the built-ins lie at the end of the page, lowest
\* bit last
BuiltinOffsetsFixed(p) ==
    \A f \in 0..(PF_MAX_FEATURE - 1) :
        NameIn(p, builtin_feature_descs[f + 1].name) =>
            PageFeatureSetFeatureOffset(p, f) = BLCKSZ - BuiltinBytesUpTo(p, f)

\* C30: in a registry committed by WritePageFeatureSet the offset resolved for a built-in
\* depends only on the sizes of the built-ins present with lower or equal bit index,
\* whatever user features were registered before the write, in whatever order, or were
\* appended after the lock
C30_BuiltinOffsetsIndependentOfUsers ==
    pfs.locked => BuiltinOffsetsFixed(pfs)

\* C31: whenever InitializeBufferEncryption returns with an enabled method, the loaded
\* registry holds the encryption feature with at least the IV's 16 bytes, the tag size
\* is not negative, the encrypted region is not empty, and the IV and the tag lie
\* inside the feature's slot, after the encrypted region
C31_EncryptionSlotHoldsIVAndTag ==
    (InitializedEnabled /\ last.ret) =>
        /\ NameIn(cluster_page_features, encryption_tags)
        /\ RecordedSize(cluster_page_features, encryption_tags) >= BUFENC_IV_SIZE
        /\ file_encryption_tag_size >= 0
        /\ bufenc.file_encryption_page_size > 0
        /\ PageEncryptOffset + bufenc.file_encryption_page_size <= bufenc.encryption_offset
        /\ BUFENC_IV_SIZE + file_encryption_tag_size <= bufenc.encryption_size

\* bit i of the bitmap of registry p is set exactly when p holds a descriptor named as
\* built-in feature i
BitmapMatchesDescriptors(p) ==
    \A i \in 0..(PF_MAX_FEATURE - 1) :
        HasBit(p.builtin_bitmap, i) <=> NameIn(p, builtin_feature_descs[i + 1].name)

\* C32: in every registry state, bit i of builtin_bitmap is set if and only if the
\* registry holds a descriptor for built-in feature i, so the lookup by number and the
\* lookup by name agree, also after add calls that returned false
C32_BitmapMatchesDescriptors ==
    /\ BitmapMatchesDescriptors(pfs)
    /\ cluster_page_features # NULL => BitmapMatchesDescriptors(cluster_page_features)

\* C33: an add call that returns false leaves the registry as it was before the call:
\* descriptors, bytes_used, feat_count, builtin_bitmap and locked
C33_FailedAddChangesNothing ==
    (last.op = "add" /\ ~last.ret) => Reg(last.reg) = last.before

\* the descriptors of registry p have pairwise different stored names
StoredNamesDistinct(p) ==
    \A i, j \in 1..p.feat_count : i # j => p.feats[i].name # p.feats[j].name

\* C34: no two descriptors of a registry have the same stored name, for names of up to
\* 20 characters: names that differ as passed to the add call are stored as different
\* names
C34_StoredNamesDistinct ==
    /\ StoredNamesDistinct(pfs)
    /\ cluster_page_features # NULL => StoredNamesDistinct(cluster_page_features)

\* PageHasNamedFeature(page, feat_name): pd_flags & PD_EXTENDED_FEATS &&
\* PageFeatureSetHasNamedFeature(cluster_page_features, feat_name)
PageHasNamedFeature(pg, feat_name) ==
    pg.extended_feats /\ PageFeatureSetHasNamedFeature(cluster_page_features, feat_name)

\* C35: for every page and feature name, PageHasNamedFeature(page, name) is true exactly
\* when PageGetNamedFeatureOffset(page, name) is not 0, also where the registry holds
\* user-defined features only and the bitmap of built-ins is empty; the pages are those
\* that carry the bitmap of the installed registry
C35_HasFeatureIffOffsetNonZero ==
    (/\ last.op = "pageoffset"
     /\ last.page # NULL
     /\ last.page.features = cluster_page_features.builtin_bitmap) =>
        (PageHasNamedFeature(last.page, last.name) <=> last.ret # 0)

\* C36: rounding never shrinks a request: a successful add call stores a size that is
\* at least the size requested, for requests over the whole range of uint16; a request
\* that is not 0 is never rounded to 0 and so never replaced by a built-in's default
C36_RoundingNeverShrinks ==
    (last.op = "add" /\ last.ret) =>
        Reg(last.reg).feats[Reg(last.reg).feat_count].size >= last.size

\* the values fetched from the shared counter so far, by any backend
FetchedValues == UNION { { fetched[p][k] : k \in 1..Len(fetched[p]) } : p \in Procs }

\* C37: for every value v that the shared counter returns, v << IV_MASK_BITS loses no
\* bits in 64-bit arithmetic: a backend inside a batch is in the batch whose number it
\* fetched, and two different fetched values start different batches, over the whole
\* range of the shared counter
C37_ShiftLosesNoBits ==
    /\ \A p \in Procs :
          (fetched[p] # << >> /\ ~PlaceNewIVFetches(_iv_counter[p][1])) =>
              BatchOf(_iv_counter[p]) = fetched[p][Len(fetched[p])]
    /\ \A v1, v2 \in FetchedValues :
          v1 # v2 => ShiftIVBits_uint64(v1) # ShiftIVBits_uint64(v2)

\* the values fetched from the shared counter are all different and none is beyond it
FetchedOnce ==
    /\ \A p \in Procs : \A k \in 1..Len(fetched[p]) : fetched[p][k] <= shared_iv
    /\ \A p, q \in Procs : \A k \in 1..Len(fetched[p]) : \A m \in 1..Len(fetched[q]) :
          (p # q \/ k # m) => fetched[p][k] # fetched[q][m]

====
